---- MODULE Spec2Model ----
(***************************************************************************)
(* Delivery and durability subsystem of the Himetrica React Native         *)
(* tracker: the persisted offline queue (storage.ts), the transport that   *)
(* sends or queues and flushes in batches (transport.ts), and the identity *)
(* store holding the visitor id and the session (storage.ts).              *)
(*                                                                         *)
(* JavaScript runs one task at a time; a task runs until its next await.   *)
(* Every action below is one such run: from the resolution of an awaited   *)
(* promise (a fetch, an AsyncStorage read or write) to the next await.     *)
(* A storage read fixes its value when AsyncStorage serves it, and a       *)
(* storage write takes effect when AsyncStorage applies it, so a whole     *)
(* queue read-modify-write cycle is two actions: the read, which keeps the *)
(* snapshot in the caller's local, and the write, computed from it.        *)
(***************************************************************************)
EXTENDS Integers, Sequences, FiniteSets, TLC

\* ------------------------------------------------------------ constants

\* transport.ts:71, queue.slice(0, 50)
BatchSize == 50
\* transport.ts:77, event.retryCount < 3
MaxRetries == 3

\* config.maxQueueSize of the modelled client (the default is 1000)
MaxQueueSize == 3
\* sendOrQueue calls of one process lifetime
MaxCalls == 5
\* sendOrQueue calls that may be in flight at once when no flush is modelled
MaxConcurrentCalls == 3
\* sendOrQueue calls started, and in flight at once, next to running flushes
MaxFlushCalls == 2
MaxInFlight == 1
\* flush runs that get past the guard when sendOrQueue calls are modelled too
MaxJointRuns == 1
\* events left in the persisted queue by an earlier process lifetime
MaxOld == 2
\* flush calls that the model can hold past the guard at once
MaxFlushers == 2
\* flush runs that get past the guard
MaxFlushRuns == 2

\* config.sessionTimeout of the modelled client, in clock ticks (the default is 30 min)
SessionTimeout == 2
\* clock ticks of the model after the first
MaxTicks == 5
\* process lifetimes on one persisted store
MaxLifetimes == 3
\* init calls of one process lifetime
MaxInits == 3
\* getSessionId calls, and writes they leave unapplied
MaxTouches == 3
MaxPending == 2
\* config.flushInterval of the modelled client, in seconds (the default is 30)
FlushInterval == 1
\* ids generateId may have returned when trackScreen asks for one more
MaxIds == 6
\* milliseconds the clock runs in the models of the screens, of the failed
\* sends and of the errors
MaxScreenClock == 2000
MaxDeliveryClock == 3000
MaxErrorClock == 330000
\* ticks of the flush interval the clock runs in the model of the draining queue
MaxDrainTicks == 1
\* screen names the application tracks
MaxScreens == 2
\* install and uninstall calls that are counted
MaxHandlerCalls == 2
\* identify calls that can be in flight together
MaxIdentifies == 2

Calls == 1..MaxCalls
Flushers == 1..MaxFlushers
AllIds == 1..(MaxCalls + MaxOld)

Min(a, b) == IF a < b THEN a ELSE b

\* ------------------------------------------------------------ state

VARIABLES
    stored,       \* AsyncStorage hm_offline_queue, parsed: a sequence of QueuedEvent
    flushing,     \* Transport.flushing
    sq,           \* the sendOrQueue calls: position, snapshot read by getQueue
    fl,           \* the flush calls: position, batch, per-item tasks
    flushRuns,    \* flush calls that passed the guard so far
    startQueue,   \* history: the persisted queue at process start
    sendCount,    \* history: sends of each event issued by flush, all lifetimes
    removedIds,   \* history: events removed by removeEvent or dropped by pruneQueue
    enqDuring,    \* history: events whose enqueue write landed after the batch was selected
    overlap,      \* history: a sendOrQueue call was in flight during the current flush
    turnedAway    \* history: the last flush call returned at the guard

qvars == <<stored, flushing, sq, fl, flushRuns, startQueue, sendCount,
           removedIds, enqDuring, overlap, turnedAway>>

VARIABLES
    now,              \* Date.now()
    visitorId,        \* Storage.visitorId ("" is NoId)
    sessionId,        \* Storage.sessionId ("" is NoId)
    sessionTimestamp, \* Storage.sessionTimestamp
    initialized,      \* Storage.initialized
    kv,               \* AsyncStorage: hm_visitor_id, hm_session_id, hm_session_timestamp
    pending,          \* AsyncStorage calls on the three keys not yet settled, oldest first
    initPc,           \* position of each Storage.init call: idle, get, set, ready, rejected
    nextId,           \* the ids generateId has returned so far are 1..nextId - 1
    lifetimes,        \* process lifetimes started so far
    touches,          \* getSessionId calls so far
    lastTouch,        \* history: what the last getSessionId call did
    seenVisitors      \* history: getVisitorId after each completed init, all lifetimes

svars == <<now, visitorId, sessionId, sessionTimestamp, initialized, kv, pending,
           initPc, nextId, lifetimes, touches, lastTouch, seenVisitors>>

VARIABLES
    clientPc,               \* position of each HimetricaClient.init call: idle, await, done
    clientInitialized,      \* HimetricaClient.initialized
    destroyed,              \* HimetricaClient.destroyed
    currentScreenName,      \* HimetricaClient.currentScreenName (<<>> is null)
    currentScreenPath,      \* HimetricaClient.currentScreenPath (<<>> is null)
    currentScreenViewId,    \* HimetricaClient.currentScreenViewId (NoId is null)
    screenStartTime,        \* HimetricaClient.screenStartTime
    screenDebounceTimer,    \* HimetricaClient.screenDebounceTimer and its callback's closure
    isFirstScreen,          \* HimetricaClient.isFirstScreen
    appStateSubscription,   \* HimetricaClient.appStateSubscription is not null
    appState,               \* HimetricaClient.appState
    flushTimer,             \* Transport.flushTimer and the time of its next tick
    leaked,                 \* intervals and listeners set by an init and no longer held
    identifyPc,             \* position of each identify in flight: idle, fetch, json
    handed,                 \* endpoint and data of each sendOrQueue call
    lastScreenCall          \* history: the last trackScreen call and what came of it

VARIABLES
    errorTimestamps,        \* ErrorTracker.errorTimestamps
    sentErrorHashes,        \* ErrorTracker.sentErrorHashes
    dedupTimers,            \* the setTimeout callbacks of isDuplicate: hash and due time
    originalHandler,        \* ErrorTracker.originalHandler (NoHandler is null)
    installed,              \* ErrorTracker.installed
    globalHandler,          \* ErrorUtils' global handler
    rejectionTracking,      \* promise rejection tracking is enabled
    lastCapture,            \* history: what the last captureError call came to
    acceptedAt,             \* history: when each fingerprint was last handed to sendOrQueue
    handlerLog              \* history: install and uninstall calls, the handler found at start

cvars == <<clientPc, clientInitialized, destroyed, currentScreenName, currentScreenPath,
           currentScreenViewId, screenStartTime, screenDebounceTimer, isFirstScreen,
           appStateSubscription, appState, flushTimer, leaked, identifyPc, handed,
           lastScreenCall>>

evars == <<errorTimestamps, sentErrorHashes, dedupTimers, originalHandler, installed,
           globalHandler, rejectionTracking, lastCapture, acceptedAt, handlerLog>>

vars == <<qvars, svars, cvars, evars>>

\* ------------------------------------------------------------ storage.ts

\* QueuedEvent (storage.ts:9-15); endpoint, data and timestamp are carried
\* along unchanged by every operation and are left out.
QueuedEvent(id, retryCount) == [id |-> id, retryCount |-> retryCount]

QueueIds(q) == {q[i].id : i \in 1..Len(q)}

\* generateId() of ./visitor: a fresh UUID for every call; the k-th
\* sendOrQueue call of the process gets the id k.
GenerateEventId(s) == s

\* enqueueEvent: queue.push(event)
EnqueuePush(queue, event) == Append(queue, event)

\* removeEvent: queue.filter((e) => e.id !== id)
RECURSIVE RemoveFilter(_, _)
RemoveFilter(queue, id) ==
    IF queue = <<>> THEN <<>>
    ELSE IF Head(queue).id # id
         THEN <<Head(queue)>> \o RemoveFilter(Tail(queue), id)
         ELSE RemoveFilter(Tail(queue), id)

\* updateEvent: queue.findIndex((e) => e.id === event.id), 0 for -1
FindIndex(queue, id) ==
    IF \E i \in 1..Len(queue) : queue[i].id = id
    THEN CHOOSE i \in 1..Len(queue) :
             /\ queue[i].id = id
             /\ \A j \in 1..(i - 1) : queue[j].id # id
    ELSE 0

\* an updateEvent that takes the event out and pushes the new one at the end
UpdateReplaceLast(queue, event) == Append(RemoveFilter(queue, event.id), event)

\* updateEvent: queue[idx] = event
UpdateReplace(queue, event) ==
    [i \in 1..Len(queue) |-> IF i = FindIndex(queue, event.id) THEN event ELSE queue[i]]

\* pruneQueue: queue.length > maxSize
PruneNeeded(queue, maxSize) == Len(queue) > maxSize

\* pruneQueue: queue.slice(queue.length - maxSize)
PruneSlice(queue, maxSize) == SubSeq(queue, Len(queue) - maxSize + 1, Len(queue))

\* ------------------------------------------------------------ storage.ts, identity

\* "" for an id in memory, null for a key AsyncStorage does not hold
NoId == 0
Null == -1
\* parseInt of a string that does not start with digits
NaN == -2

\* Date.now() is far above any sessionTimeout: the clock starts above it too
StartTime == SessionTimeout + 1
MaxTime == StartTime + MaxTicks

\* generateId() of ./visitor: a fresh UUID for every call; the ids are
\* numbered in the order they are generated
GenerateId == nextId

\* String(n) of a timestamp: the decimal digits of n, held as n
StringOfTimestamp(n) == n

\* init: sessionTimestamp[1] ? parseInt(sessionTimestamp[1], 10) : 0
\* (a stored string is the digits of n >= 0, or text that does not parse)
ParseStoredTimestamp(s) ==
    IF s = Null THEN 0
    ELSE IF s >= 0 THEN s
    ELSE NaN

\* a session that already expires at the timeout: now - timestamp >= sessionTimeout
ExpiredAtTimeout(time, timestamp, sessionTimeout) ==
    /\ timestamp # NaN
    /\ time - timestamp >= sessionTimeout

\* now - timestamp > sessionTimeout (every comparison with NaN is false)
Expired(time, timestamp, sessionTimeout) ==
    /\ timestamp # NaN
    /\ time - timestamp > sessionTimeout

\* init: visitorId[1] || generateId()
InitVisitorId(storedVisitor, fresh) ==
    IF storedVisitor # Null /\ storedVisitor # NoId THEN storedVisitor ELSE fresh

\* init: sessionId[1] && !expired
InitKeepsSession(storedSession, time, timestamp, sessionTimeout) ==
    /\ storedSession # Null
    /\ storedSession # NoId
    /\ ~Expired(time, timestamp, sessionTimeout)

\* ------------------------------------------------------------ transport.ts

\* flush: queue.slice(0, 50)
BatchOf(queue) == SubSeq(queue, 1, Min(BatchSize, Len(queue)))

\* flush, per item after a failed send: event.retryCount < 3
RetryAllowed(event) == event.retryCount < MaxRetries

\* flush: { ...event, retryCount: event.retryCount + 1 }
Retried(event) == QueuedEvent(event.id, event.retryCount + 1)

\* failed is a history: the last storage call of this sendOrQueue call that
\* was rejected
IdleCall == [pc |-> "idle", snap |-> <<>>, failed |-> "none"]
IdleFlush == [pc |-> "idle", batch |-> <<>>, tasks |-> <<>>]
NewTask == [pc |-> "send", ok |-> FALSE, snap |-> <<>>]

InFlight(s) == sq[s].pc \notin {"idle", "sent", "queued"}
Running(f) == fl[f].pc \in {"read", "run"}
Started == {s \in Calls : sq[s].pc # "idle"}

\* The queues an earlier lifetime can leave behind: up to MaxOld events, the
\* oldest either never retried or retried MaxRetries times.
OldQueues ==
    {<<>>} \cup
    {[i \in 1..n |-> IF i = 1 THEN r ELSE 0] : n \in 1..MaxOld, r \in {0, MaxRetries}}

OldQueue(rcs) == [i \in 1..Len(rcs) |-> QueuedEvent(MaxCalls + i, rcs[i])]

InitQueue(q) ==
    /\ stored = q
    /\ startQueue = q
    /\ flushing = FALSE
    /\ sq = [s \in Calls |-> IdleCall]
    /\ fl = [f \in Flushers |-> IdleFlush]
    /\ flushRuns = 0
    \* an event with retryCount r has been sent r times by earlier flushes
    /\ sendCount = [id \in AllIds |->
                      IF \E i \in 1..Len(q) : q[i].id = id
                      THEN q[FindIndex(q, id)].retryCount ELSE 0]
    /\ removedIds = {}
    /\ enqDuring = {}
    /\ overlap = FALSE
    /\ turnedAway = FALSE

\* the init calls of one lifetime, in the order they are made
Inits == 1..MaxInits
Identifies == 1..MaxIdentifies

InitStore ==
    /\ now = StartTime
    /\ visitorId = NoId
    /\ sessionId = NoId
    /\ sessionTimestamp = 0
    /\ initialized = FALSE
    /\ kv = [visitor |-> Null, session |-> Null, timestamp |-> Null]
    /\ pending = <<>>
    /\ initPc = [i \in Inits |-> "idle"]
    /\ nextId = 1
    /\ lifetimes = 1
    /\ touches = 0
    /\ lastTouch = "none"
    /\ seenVisitors = {}

\* What an earlier lifetime, or damage to the store, can leave under the three
\* keys: the ids OldVisitor and OldSession or nothing, and a timestamp that is
\* missing, is not a number, or is a time up to the start of this lifetime.
OldVisitor == 1
OldSession == 2
LeftOverStores ==
    [visitor : {Null, OldVisitor},
     session : {Null, OldSession},
     timestamp : {Null, NaN} \cup 0..StartTime]

InitStoreWith(left) ==
    /\ now = StartTime
    /\ visitorId = NoId
    /\ sessionId = NoId
    /\ sessionTimestamp = 0
    /\ initialized = FALSE
    /\ kv = left
    /\ pending = <<>>
    /\ initPc = [i \in Inits |-> "idle"]
    /\ nextId = OldSession + 1
    /\ lifetimes = 1
    /\ touches = 0
    /\ lastTouch = "none"
    /\ seenVisitors = {}

InitClientIn(state) ==
    /\ clientPc = [i \in Inits |-> "idle"]
    /\ clientInitialized = FALSE
    /\ destroyed = FALSE
    /\ currentScreenName = <<>>
    /\ currentScreenPath = <<>>
    /\ currentScreenViewId = NoId
    /\ screenStartTime = 0
    /\ screenDebounceTimer = [set |-> FALSE, name |-> <<>>, path |-> <<>>,
                              viewId |-> NoId, due |-> 0]
    /\ isFirstScreen = TRUE
    /\ appStateSubscription = FALSE
    /\ appState = state
    /\ flushTimer = [set |-> FALSE, due |-> 0]
    /\ leaked = [timers |-> <<>>, listeners |-> 0]
    /\ identifyPc = [c \in Identifies |-> "idle"]
    /\ handed = [s \in Calls |-> [endpoint |-> "none", ref |-> 0, value |-> 0,
                                  visitorId |-> NoId, sessionId |-> NoId]]
    /\ lastScreenCall = [name |-> <<>>, path |-> <<>>, calls |-> 0, activated |-> 0,
                         payloads |-> 0, unready |-> FALSE, durations |-> 0,
                         durationRepeat |-> FALSE, prior |-> FALSE,
                         activeAtFirst |-> FALSE, cancelled |-> FALSE,
                         deduped |-> FALSE, replaced |-> FALSE]

\* AppStateStatus: what AppState.currentState can be when the client is built
StartStates == {"active", "inactive", "background", "unknown"}

\* the fields of a new HimetricaClient; appState = AppState.currentState
InitClient == \E state \in StartStates : InitClientIn(state)

InitErrorsWith(handler) ==
    /\ errorTimestamps = <<>>
    /\ sentErrorHashes = {}
    /\ dedupTimers = {}
    /\ originalHandler = "none"
    /\ installed = FALSE
    /\ globalHandler = handler
    /\ rejectionTracking = FALSE
    /\ lastCapture = [outcome |-> "none", hash |-> 0, via |-> "none", passedTo |-> "none"]
    /\ acceptedAt = {}
    /\ handlerLog = [installs |-> 0, uninstalls |-> 0, last |-> "none", prior |-> handler]

\* a tracker built while the app is in the foreground
InitTracker == InitClientIn("active") /\ InitErrorsWith("default")

Init == InitTracker /\ InitStore /\ \E rcs \in OldQueues : InitQueue(OldQueue(rcs))

\* sendOrQueue is called: transport.ts:50, the fetch is issued. Calls are
\* numbered in the order they are made.
SendOrQueueIssue(s) ==
    /\ sq[s].pc = "idle"
    /\ \A t \in 1..(s - 1) : sq[t].pc # "idle"
    /\ sq' = [sq EXCEPT ![s].pc = "send"]

\* overlap after a handler that made a sendOrQueue call (called) and whose
\* flush call, if it made one, got past the guard (flushStarted)
OverlapAfter(called, flushStarted) ==
    IF flushStarted
    THEN called \/ \E s \in Calls : InFlight(s)
    ELSE overlap \/ (called /\ \E f \in Flushers : Running(f))

SendOrQueueCall(s) ==
    /\ UNCHANGED <<svars, cvars, evars>> /\ UNCHANGED turnedAway
    /\ SendOrQueueIssue(s)
    /\ overlap' = OverlapAfter(TRUE, FALSE)
    /\ UNCHANGED <<stored, flushing, fl, flushRuns, startQueue, sendCount,
                   removedIds, enqDuring>>

\* transport.ts:50-52: send resolves; on failure enqueueEvent issues getQueue
SendOrQueueSent(s, success) ==
    /\ UNCHANGED <<svars, cvars, evars>> /\ UNCHANGED turnedAway
    /\ sq[s].pc = "send"
    /\ sq' = [sq EXCEPT ![s].pc = IF success THEN "sent" ELSE "enqRead"]
    /\ UNCHANGED <<stored, flushing, fl, flushRuns, startQueue, sendCount,
                   removedIds, enqDuring, overlap>>

\* storage.ts:103-105: getQueue resolves, the event is pushed, saveQueue is issued
EnqueueEventRead(s) ==
    /\ UNCHANGED <<svars, cvars, evars>> /\ UNCHANGED turnedAway
    /\ sq[s].pc = "enqRead"
    /\ sq' = [sq EXCEPT ![s].pc = "enqWrite", ![s].snap = stored]
    /\ UNCHANGED <<stored, flushing, fl, flushRuns, startQueue, sendCount,
                   removedIds, enqDuring, overlap>>

\* storage.ts:105 and transport.ts:59: the write lands, pruneQueue issues getQueue
EnqueueEventWrite(s) ==
    /\ UNCHANGED <<svars, cvars, evars>> /\ UNCHANGED turnedAway
    /\ sq[s].pc = "enqWrite"
    /\ stored' = EnqueuePush(sq[s].snap, QueuedEvent(GenerateEventId(s), 0))
    /\ sq' = [sq EXCEPT ![s].pc = "pruneRead", ![s].snap = <<>>]
    /\ enqDuring' = IF \E f \in Flushers : fl[f].pc = "run"
                    THEN enqDuring \cup {GenerateEventId(s)} ELSE enqDuring
    /\ UNCHANGED <<flushing, fl, flushRuns, startQueue, sendCount, removedIds, overlap>>

\* storage.ts:123-125: getQueue resolves; saveQueue is issued only when too long
PruneQueueRead(s) ==
    /\ UNCHANGED <<svars, cvars, evars>> /\ UNCHANGED turnedAway
    /\ sq[s].pc = "pruneRead"
    /\ sq' = IF PruneNeeded(stored, MaxQueueSize)
             THEN [sq EXCEPT ![s].pc = "pruneWrite", ![s].snap = stored]
             ELSE [sq EXCEPT ![s].pc = "queued", ![s].snap = <<>>]
    /\ UNCHANGED <<stored, flushing, fl, flushRuns, startQueue, sendCount,
                   removedIds, enqDuring, overlap>>

\* storage.ts:125: the pruned queue lands, sendOrQueue returns
PruneQueueWrite(s) ==
    /\ UNCHANGED <<svars, cvars, evars>> /\ UNCHANGED turnedAway
    /\ sq[s].pc = "pruneWrite"
    /\ stored' = PruneSlice(sq[s].snap, MaxQueueSize)
    /\ removedIds' = removedIds \cup
                     (QueueIds(sq[s].snap) \ QueueIds(PruneSlice(sq[s].snap, MaxQueueSize)))
    /\ sq' = [sq EXCEPT ![s].pc = "queued", ![s].snap = <<>>]
    /\ UNCHANGED <<flushing, fl, flushRuns, startQueue, sendCount, enqDuring, overlap>>

\* storage.ts:84-92 in enqueueEvent: getItem throws, getQueue returns [], the
\* event is pushed onto it and saveQueue is issued with the event alone
EnqueueEventReadFails(s) ==
    /\ UNCHANGED <<svars, cvars, evars>> /\ UNCHANGED turnedAway
    /\ sq[s].pc = "enqRead"
    /\ sq' = [sq EXCEPT ![s].pc = "enqWrite", ![s].snap = <<>>, ![s].failed = "enqRead"]
    /\ UNCHANGED <<stored, flushing, fl, flushRuns, startQueue, sendCount,
                   removedIds, enqDuring, overlap>>

\* storage.ts:94-100 in enqueueEvent: setItem throws and is swallowed; the
\* queue stays as it was and pruneQueue issues getQueue (transport.ts:59)
EnqueueEventWriteFails(s) ==
    /\ UNCHANGED <<svars, cvars, evars>> /\ UNCHANGED turnedAway
    /\ sq[s].pc = "enqWrite"
    /\ sq' = [sq EXCEPT ![s].pc = "pruneRead", ![s].snap = <<>>, ![s].failed = "enqWrite"]
    /\ UNCHANGED <<stored, flushing, fl, flushRuns, startQueue, sendCount,
                   removedIds, enqDuring, overlap>>

\* storage.ts:84-92 in pruneQueue: getItem throws, getQueue returns [], which
\* is not longer than maxSize; nothing is written and sendOrQueue returns
PruneQueueReadFails(s) ==
    /\ UNCHANGED <<svars, cvars, evars>> /\ UNCHANGED turnedAway
    /\ sq[s].pc = "pruneRead"
    /\ sq' = [sq EXCEPT ![s].pc = "queued", ![s].snap = <<>>, ![s].failed = "pruneRead"]
    /\ UNCHANGED <<stored, flushing, fl, flushRuns, startQueue, sendCount,
                   removedIds, enqDuring, overlap>>

\* storage.ts:94-100 in pruneQueue: setItem throws and is swallowed; the queue
\* stays over maxSize and sendOrQueue returns
PruneQueueWriteFails(s) ==
    /\ UNCHANGED <<svars, cvars, evars>> /\ UNCHANGED turnedAway
    /\ sq[s].pc = "pruneWrite"
    /\ sq' = [sq EXCEPT ![s].pc = "queued", ![s].snap = <<>>, ![s].failed = "pruneWrite"]
    /\ UNCHANGED <<stored, flushing, fl, flushRuns, startQueue, sendCount,
                   removedIds, enqDuring, overlap>>

\* a flush without the guard
FlushGuardOff == FALSE

\* transport.ts:64: if (this.flushing) return
FlushGuard == flushing

\* transport.ts:64-68: flush is called; at the guard it returns, behind it it
\* takes the flag and issues getQueue. The calls past the guard are numbered
\* by the lowest free slot.
\* flushRuns, sendCount and removedIds are histories; counting says whether
\* the step keeps them. A counted flush is one of at most MaxFlushRuns.
FlushIssueCounted(counting) ==
    IF FlushGuard
    THEN /\ turnedAway' = TRUE
         /\ UNCHANGED <<flushing, fl, flushRuns>>
    ELSE \E f \in Flushers :
         /\ fl[f].pc = "idle"
         /\ \A g \in 1..(f - 1) : Running(g)
         /\ counting => flushRuns < MaxFlushRuns
         /\ flushing' = TRUE
         /\ flushRuns' = IF counting THEN flushRuns + 1 ELSE flushRuns
         /\ fl' = [fl EXCEPT ![f].pc = "read"]
         /\ turnedAway' = FALSE

FlushIssue == FlushIssueCounted(TRUE)

FlushCall ==
    /\ UNCHANGED <<svars, cvars, evars>>
    /\ FlushIssue
    /\ overlap' = OverlapAfter(FALSE, ~FlushGuard)
    /\ UNCHANGED <<stored, sq, startQueue, sendCount, removedIds, enqDuring>>

\* transport.ts:68-74 and 90-92: getQueue resolves; an empty queue returns
\* through finally, otherwise the batch is cut and every item's send is issued
FlushReadCounted(f, counting) ==
    /\ UNCHANGED <<svars, cvars, evars>> /\ UNCHANGED turnedAway
    /\ fl[f].pc = "read"
    /\ IF Len(stored) = 0
       THEN /\ flushing' = FALSE
            /\ fl' = [fl EXCEPT ![f] = IdleFlush]
            /\ UNCHANGED <<sendCount, enqDuring>>
       ELSE /\ fl' = [fl EXCEPT ![f] =
                        [pc |-> "run", batch |-> BatchOf(stored),
                         tasks |-> [i \in 1..Len(BatchOf(stored)) |-> NewTask]]]
            /\ sendCount' = [id \in AllIds |->
                               IF counting /\ id \in QueueIds(BatchOf(stored))
                               THEN sendCount[id] + 1 ELSE sendCount[id]]
            /\ enqDuring' = {}
            /\ UNCHANGED flushing
    /\ UNCHANGED <<stored, sq, flushRuns, startQueue, removedIds, overlap>>

FlushRead(f) == FlushReadCounted(f, TRUE)

\* transport.ts:74-83: one item's send resolves and removeEvent or updateEvent
\* issues getQueue
FlushItemSent(f, i, success) ==
    /\ UNCHANGED <<svars, cvars, evars>> /\ UNCHANGED turnedAway
    /\ fl[f].pc = "run"
    /\ i \in 1..Len(fl[f].tasks)
    /\ fl[f].tasks[i].pc = "send"
    /\ fl' = [fl EXCEPT ![f].tasks[i] =
                [pc |-> IF success THEN "rmRead"
                        ELSE IF RetryAllowed(fl[f].batch[i]) THEN "upRead"
                        ELSE "rmRead",
                 ok |-> success, snap |-> <<>>]]
    /\ UNCHANGED <<stored, flushing, sq, flushRuns, startQueue, sendCount,
                   removedIds, enqDuring, overlap>>

\* storage.ts:109-110: removeEvent's getQueue resolves, saveQueue is issued
RemoveEventRead(f, i) ==
    /\ UNCHANGED <<svars, cvars, evars>> /\ UNCHANGED turnedAway
    /\ fl[f].pc = "run"
    /\ i \in 1..Len(fl[f].tasks)
    /\ fl[f].tasks[i].pc = "rmRead"
    /\ fl' = [fl EXCEPT ![f].tasks[i].pc = "rmWrite", ![f].tasks[i].snap = stored]
    /\ UNCHANGED <<stored, flushing, sq, flushRuns, startQueue, sendCount,
                   removedIds, enqDuring, overlap>>

\* storage.ts:110: the filtered queue lands
RemoveEventWriteCounted(f, i, counting) ==
    /\ UNCHANGED <<svars, cvars, evars>> /\ UNCHANGED turnedAway
    /\ fl[f].pc = "run"
    /\ i \in 1..Len(fl[f].tasks)
    /\ fl[f].tasks[i].pc = "rmWrite"
    /\ stored' = RemoveFilter(fl[f].tasks[i].snap, fl[f].batch[i].id)
    /\ removedIds' = IF counting THEN removedIds \cup {fl[f].batch[i].id} ELSE removedIds
    /\ fl' = [fl EXCEPT ![f].tasks[i].pc = "done", ![f].tasks[i].snap = <<>>]
    /\ UNCHANGED <<flushing, sq, flushRuns, startQueue, sendCount, enqDuring, overlap>>

RemoveEventWrite(f, i) == RemoveEventWriteCounted(f, i, TRUE)

\* storage.ts:114-119: updateEvent's getQueue resolves; saveQueue is issued
\* only when the event is still in the queue
UpdateEventRead(f, i) ==
    /\ UNCHANGED <<svars, cvars, evars>> /\ UNCHANGED turnedAway
    /\ fl[f].pc = "run"
    /\ i \in 1..Len(fl[f].tasks)
    /\ fl[f].tasks[i].pc = "upRead"
    /\ fl' = IF FindIndex(stored, fl[f].batch[i].id) # 0
             THEN [fl EXCEPT ![f].tasks[i].pc = "upWrite", ![f].tasks[i].snap = stored]
             ELSE [fl EXCEPT ![f].tasks[i].pc = "done"]
    /\ UNCHANGED <<stored, flushing, sq, flushRuns, startQueue, sendCount,
                   removedIds, enqDuring, overlap>>

\* storage.ts:117-118: the queue with the event replaced lands
UpdateEventWrite(f, i) ==
    /\ UNCHANGED <<svars, cvars, evars>> /\ UNCHANGED turnedAway
    /\ fl[f].pc = "run"
    /\ i \in 1..Len(fl[f].tasks)
    /\ fl[f].tasks[i].pc = "upWrite"
    /\ stored' = UpdateReplace(fl[f].tasks[i].snap, Retried(fl[f].batch[i]))
    /\ fl' = [fl EXCEPT ![f].tasks[i].pc = "done", ![f].tasks[i].snap = <<>>]
    /\ UNCHANGED <<flushing, sq, flushRuns, startQueue, sendCount, removedIds,
                   enqDuring, overlap>>

\* storage.ts:84-92 in flush: getItem throws, getQueue returns []; flush takes
\* the queue for empty and returns through finally
FlushReadFails(f) ==
    /\ UNCHANGED <<svars, cvars, evars>> /\ UNCHANGED turnedAway
    /\ fl[f].pc = "read"
    /\ flushing' = FALSE
    /\ fl' = [fl EXCEPT ![f] = IdleFlush]
    /\ UNCHANGED <<stored, sq, flushRuns, startQueue, sendCount, removedIds,
                   enqDuring, overlap>>

\* storage.ts:84-92 in removeEvent: getItem throws, getQueue returns [] and
\* saveQueue is issued with the filtered empty queue
RemoveEventReadFails(f, i) ==
    /\ UNCHANGED <<svars, cvars, evars>> /\ UNCHANGED turnedAway
    /\ fl[f].pc = "run"
    /\ i \in 1..Len(fl[f].tasks)
    /\ fl[f].tasks[i].pc = "rmRead"
    /\ fl' = [fl EXCEPT ![f].tasks[i].pc = "rmWrite", ![f].tasks[i].snap = <<>>]
    /\ UNCHANGED <<stored, flushing, sq, flushRuns, startQueue, sendCount,
                   removedIds, enqDuring, overlap>>

\* storage.ts:84-92 in updateEvent: getItem throws, getQueue returns [],
\* findIndex gives -1 and updateEvent returns without a write
UpdateEventReadFails(f, i) ==
    /\ UNCHANGED <<svars, cvars, evars>> /\ UNCHANGED turnedAway
    /\ fl[f].pc = "run"
    /\ i \in 1..Len(fl[f].tasks)
    /\ fl[f].tasks[i].pc = "upRead"
    /\ fl' = [fl EXCEPT ![f].tasks[i].pc = "failed"]
    /\ UNCHANGED <<stored, flushing, sq, flushRuns, startQueue, sendCount,
                   removedIds, enqDuring, overlap>>

\* storage.ts:94-100 in removeEvent or updateEvent: setItem throws, saveQueue
\* swallows it and the queue stays as it was
SaveQueueFails(f, i) ==
    /\ UNCHANGED <<svars, cvars, evars>> /\ UNCHANGED turnedAway
    /\ fl[f].pc = "run"
    /\ i \in 1..Len(fl[f].tasks)
    /\ fl[f].tasks[i].pc \in {"rmWrite", "upWrite"}
    /\ fl' = [fl EXCEPT ![f].tasks[i].pc = "failed", ![f].tasks[i].snap = <<>>]
    /\ UNCHANGED <<stored, flushing, sq, flushRuns, startQueue, sendCount,
                   removedIds, enqDuring, overlap>>

\* a flush that resolves as soon as one item's task has run to its end
SettledEarly(f) ==
    /\ fl[f].pc = "run"
    /\ \E i \in 1..Len(fl[f].tasks) : fl[f].tasks[i].pc \in {"done", "failed"}

\* Promise.allSettled has resolved: every item's task has run to its end,
\* with its storage call applied ("done") or failed and swallowed ("failed")
Settled(f) ==
    /\ fl[f].pc = "run"
    /\ \A i \in 1..Len(fl[f].tasks) : fl[f].tasks[i].pc \in {"done", "failed"}

\* transport.ts:87-92: allSettled resolves, finally clears the flag
FlushFinish(f) ==
    /\ UNCHANGED <<svars, cvars, evars>> /\ UNCHANGED turnedAway
    /\ Settled(f)
    /\ flushing' = FALSE
    /\ fl' = [fl EXCEPT ![f] = IdleFlush]
    /\ UNCHANGED <<stored, sq, flushRuns, startQueue, sendCount, removedIds,
                   enqDuring, overlap>>

SendOrQueueStep(s) ==
    \/ \E success \in BOOLEAN : SendOrQueueSent(s, success)
    \/ EnqueueEventRead(s)
    \/ EnqueueEventWrite(s)
    \/ PruneQueueRead(s)
    \/ PruneQueueWrite(s)

\* the steps of a sendOrQueue call whose storage call fails
SendOrQueueStepFails(s) ==
    \/ EnqueueEventReadFails(s)
    \/ EnqueueEventWriteFails(s)
    \/ PruneQueueReadFails(s)
    \/ PruneQueueWriteFails(s)

FlushStepCounted(f, counting) ==
    \/ FlushReadCounted(f, counting)
    \/ \E i \in 1..(MaxQueueSize + MaxCalls), success \in BOOLEAN : FlushItemSent(f, i, success)
    \/ \E i \in 1..(MaxQueueSize + MaxCalls) : RemoveEventRead(f, i)
    \/ \E i \in 1..(MaxQueueSize + MaxCalls) : RemoveEventWriteCounted(f, i, counting)
    \/ \E i \in 1..(MaxQueueSize + MaxCalls) : UpdateEventRead(f, i)
    \/ \E i \in 1..(MaxQueueSize + MaxCalls) : UpdateEventWrite(f, i)
    \/ FlushFinish(f)

FlushStep(f) == FlushStepCounted(f, TRUE)

\* the steps of a flush whose storage call fails
FlushStepFails(f) ==
    \/ FlushReadFails(f)
    \/ \E i \in 1..(MaxQueueSize + MaxCalls) : RemoveEventReadFails(f, i)
    \/ \E i \in 1..(MaxQueueSize + MaxCalls) : UpdateEventReadFails(f, i)
    \/ \E i \in 1..(MaxQueueSize + MaxCalls) : SaveQueueFails(f, i)

\* ------------------------------------------------------------ identity store actions

\* the clock advances
Tick ==
    /\ now < MaxTime
    /\ now' = now + 1
    /\ UNCHANGED <<visitorId, sessionId, sessionTimestamp, initialized, kv, pending,
                   initPc, nextId, lifetimes, touches, lastTouch, seenVisitors>>
    /\ UNCHANGED <<qvars, cvars, evars>>

FreeInits == {i \in Inits : initPc[i] = "idle" /\ clientPc[i] = "idle"}
FreeInit == CHOOSE i \in FreeInits : \A j \in FreeInits : i <= j

\* AsyncStorage serves the calls on the three keys in the order they were
\* made. A call that init awaits carries the number of the init call, a
\* write that nobody awaits carries NotAwaited; Null marks a key a write
\* does not name, and a multiGet names none.
NotAwaited == 0
MultiGet(i) == [visitor |-> Null, session |-> Null, timestamp |-> Null, init |-> i]
NextCallOf(i) == pending # <<>> /\ Head(pending).init = i

\* AsyncStorage after the write w
Written(w) ==
    [kv EXCEPT !.visitor = IF w.visitor # Null THEN w.visitor ELSE @,
               !.session = IF w.session # Null THEN w.session ELSE @,
               !.timestamp = IF w.timestamp # Null THEN w.timestamp ELSE @]

\* storage.ts:23-28: init is called (client.ts:42; nothing in Storage.init
\* keeps a second call from running) and issues multiGet
StorageInitCall ==
    /\ FreeInits # {}
    /\ initPc' = [initPc EXCEPT ![FreeInit] = "get"]
    /\ pending' = Append(pending, MultiGet(FreeInit))
    /\ UNCHANGED <<now, visitorId, sessionId, sessionTimestamp, initialized, kv,
                   nextId, lifetimes, touches, lastTouch, seenVisitors>>
    /\ UNCHANGED <<qvars, cvars, evars>>

\* storage.ts:24-50: multiGet resolves, the identity is taken or generated
\* and multiSet is issued with the fields as they are now
StorageInitGot ==
    \E i \in Inits :
        LET storedTimestamp == ParseStoredTimestamp(kv.timestamp)
            newVisitor == InitVisitorId(kv.visitor, GenerateId)
            afterVisitor == IF newVisitor = GenerateId THEN nextId + 1 ELSE nextId
            keep == InitKeepsSession(kv.session, now, storedTimestamp, SessionTimeout)
            newSession == IF keep THEN kv.session ELSE afterVisitor
            newTimestamp == IF keep THEN storedTimestamp ELSE now
        IN  /\ initPc[i] = "get"
            /\ NextCallOf(i)
            /\ visitorId' = newVisitor
            /\ sessionId' = newSession
            /\ sessionTimestamp' = newTimestamp
            /\ nextId' = IF keep THEN afterVisitor ELSE afterVisitor + 1
            /\ initPc' = [initPc EXCEPT ![i] = "set"]
            /\ pending' = Append(Tail(pending),
                                 [visitor |-> newVisitor, session |-> newSession,
                                  timestamp |-> StringOfTimestamp(newTimestamp),
                                  init |-> i])
            /\ UNCHANGED <<now, initialized, kv, lifetimes, touches, lastTouch,
                           seenVisitors>>
            /\ UNCHANGED <<qvars, cvars, evars>>

\* storage.ts:46-52: multiSet resolves, the store is ready
StorageInitSet ==
    \E i \in Inits :
        /\ initPc[i] = "set"
        /\ NextCallOf(i)
        /\ kv' = Written(Head(pending))
        /\ pending' = Tail(pending)
        /\ initialized' = TRUE
        /\ initPc' = [initPc EXCEPT ![i] = "ready"]
        /\ seenVisitors' = seenVisitors \cup {visitorId}
        /\ UNCHANGED <<now, visitorId, sessionId, sessionTimestamp, nextId,
                       lifetimes, touches, lastTouch>>
        /\ UNCHANGED <<qvars, cvars, evars>>

\* storage.ts:24: multiGet rejects; init has no try/catch, so the rejection
\* leaves Storage.init and, through client.ts:42, HimetricaClient.init
StorageInitGetFails ==
    \E i \in Inits :
        /\ initPc[i] = "get"
        /\ NextCallOf(i)
        /\ pending' = Tail(pending)
        /\ initPc' = [initPc EXCEPT ![i] = "rejected"]
        /\ UNCHANGED <<now, visitorId, sessionId, sessionTimestamp, initialized, kv,
                       nextId, lifetimes, touches, lastTouch, seenVisitors>>
        /\ UNCHANGED <<qvars, cvars, evars>>

\* storage.ts:46: multiSet rejects; the identity stays in memory, line 52 is
\* never reached and the rejection leaves init
StorageInitSetFails ==
    \E i \in Inits :
        /\ initPc[i] = "set"
        /\ NextCallOf(i)
        /\ pending' = Tail(pending)
        /\ initPc' = [initPc EXCEPT ![i] = "rejected"]
        /\ UNCHANGED <<now, visitorId, sessionId, sessionTimestamp, initialized, kv,
                       nextId, lifetimes, touches, lastTouch, seenVisitors>>
        /\ UNCHANGED <<qvars, cvars, evars>>

\* storage.ts:64-78: getSessionId, called behind isReady() by track, identify,
\* captureError, the screen timer and the foreground transition
TouchSession ==
    /\ initialized
    /\ touches < MaxTouches
    /\ Len(pending) < MaxPending
    /\ touches' = touches + 1
    /\ IF Expired(now, sessionTimestamp, SessionTimeout)
       THEN /\ sessionId' = GenerateId
            /\ nextId' = nextId + 1
            /\ pending' = Append(pending, [visitor |-> Null, session |-> GenerateId,
                                           timestamp |-> StringOfTimestamp(now),
                                           init |-> NotAwaited])
            /\ lastTouch' = "rotated"
       ELSE /\ pending' = Append(pending, [visitor |-> Null, session |-> Null,
                                           timestamp |-> StringOfTimestamp(now),
                                           init |-> NotAwaited])
            /\ lastTouch' = "kept"
            /\ UNCHANGED <<sessionId, nextId>>
    /\ sessionTimestamp' = now

\* a getSessionId call on its own
GetSessionId ==
    /\ TouchSession
    /\ UNCHANGED <<now, visitorId, initialized, kv, initPc, lifetimes, seenVisitors>>
    /\ UNCHANGED <<qvars, cvars, evars>>

\* AsyncStorage applies a write that was not awaited (setItem of
\* storage.ts:61, multiSet of storage.ts:69-72 or setItem of storage.ts:75)
ApplyWrite ==
    /\ NextCallOf(NotAwaited)
    /\ kv' = Written(Head(pending))
    /\ pending' = Tail(pending)
    /\ UNCHANGED <<now, visitorId, sessionId, sessionTimestamp, initialized, initPc,
                   nextId, lifetimes, touches, lastTouch, seenVisitors>>
    /\ UNCHANGED <<qvars, cvars, evars>>

\* storage.ts:61, 69-72, 75: AsyncStorage rejects an un-awaited setItem or
\* multiSet; .catch(() => {}) swallows it and the keys stay as they were
RejectWrite ==
    /\ NextCallOf(NotAwaited)
    /\ pending' = Tail(pending)
    /\ UNCHANGED <<now, visitorId, sessionId, sessionTimestamp, initialized, kv, initPc,
                   nextId, lifetimes, touches, lastTouch, seenVisitors>>
    /\ UNCHANGED <<qvars, cvars, evars>>

\* the process ends and a new one starts on the same AsyncStorage: the fields
\* are back at their initializers (storage.ts:18-21), writes not yet applied
\* are lost
Restart ==
    /\ lifetimes < MaxLifetimes
    /\ lifetimes' = lifetimes + 1
    /\ visitorId' = NoId
    /\ sessionId' = NoId
    /\ sessionTimestamp' = 0
    /\ initialized' = FALSE
    /\ pending' = <<>>
    /\ initPc' = [i \in Inits |-> "idle"]
    /\ lastTouch' = "none"
    /\ UNCHANGED <<now, kv, nextId, touches, seenVisitors>>
    /\ UNCHANGED <<qvars, cvars, evars>>

\* no init call has been made in this lifetime
NoInitYet == FreeInits = Inits

\* the identity store over process lifetimes, init called once in each
NextStore ==
    \/ Tick
    \/ NoInitYet /\ StorageInitCall
    \/ StorageInitGot
    \/ StorageInitSet
    \/ GetSessionId
    \/ ApplyWrite
    \/ RejectWrite
    \/ Restart

\* no multiSet of an init is in flight
InitWritesLanded == \A i \in Inits : initPc[i] # "set"

\* init called as often as Storage.init lets it run (it has no guard, and
\* the guard of HimetricaClient.init holds until an init has resolved), every
\* multiGet and multiSet succeeding: a lifetime does not end while the
\* multiSet of an init is in flight
NextReinit ==
    \/ Tick
    \/ StorageInitCall
    \/ StorageInitGot
    \/ StorageInitSet
    \/ InitWritesLanded /\ Restart

\* an init of this lifetime has rejected
InitRejected == \E i \in Inits : initPc[i] = "rejected"

\* the identity store on an AsyncStorage that can fail; init is called again
\* after one has rejected
NextInit ==
    \/ Tick
    \/ (NoInitYet \/ InitRejected) /\ StorageInitCall
    \/ StorageInitGot
    \/ StorageInitGetFails
    \/ StorageInitSet
    \/ StorageInitSetFails
    \/ GetSessionId
    \/ ApplyWrite
    \/ RejectWrite
    \/ Restart

\* ------------------------------------------------------------ errors.ts

MAX_ERRORS_PER_WINDOW == 10
RATE_LIMIT_WINDOW_MS == 60000
DEDUP_EXPIRY_MS == 300000
MAX_STACK_LINES == 20

\* config.autoTrackErrors (the default) and the presence of global.ErrorUtils
AutoTrackErrors == TRUE
HasErrorUtils == TRUE

\* the global handlers: React Native's own, one set by another library, the
\* closure install sets; NoHandler is null
NoHandler == "none"
ForeignHandlers == {"default", "other"}
TrackerHandler == "tracker"

\* Strings are sequences of char codes. An Error has a message and a stack,
\* the stack given as its lines (<<>> for no stack).
Bar == 124
NewLine == 10
ErrorText == <<69, 114, 114, 111, 114>>

\* hashString keeps a 32-bit hash, held here as two 16-bit halves; one step
\* is ((hash << 5) + hash + c) | 0, from hash = 5381
RECURSIVE HashLow(_, _)
HashLow(str, n) ==
    IF n = 0 THEN 5381 ELSE (HashLow(str, n - 1) * 33 + str[n]) % 65536

RECURSIVE HashHigh(_, _)
HashHigh(str, n) ==
    IF n = 0 THEN 0
    ELSE (HashHigh(str, n - 1) * 33 + (HashLow(str, n - 1) * 33 + str[n]) \div 65536) % 65536

\* hashString: the signed 32-bit number that String(hash) prints
HashString(str) ==
    LET high == HashHigh(str, Len(str))
        low == HashLow(str, Len(str))
    IN  IF high >= 32768 THEN (high - 65536) * 65536 + low ELSE high * 65536 + low

\* a normalizeStack that keeps every line
NormalizeStackWhole(stack) == stack

\* normalizeStack: stack.split("\n").slice(0, MAX_STACK_LINES)
NormalizeStack(stack) == SubSeq(stack, 1, Min(MAX_STACK_LINES, Len(stack)))

\* lines.join("\n")
RECURSIVE JoinLines(_)
JoinLines(lines) ==
    IF lines = <<>> THEN <<>>
    ELSE IF Len(lines) = 1 THEN Head(lines)
    ELSE Head(lines) \o <<NewLine>> \o JoinLines(Tail(lines))

\* captureError: error.message || String(error)
ErrorMessage(error) == IF error.message = <<>> THEN ErrorText ELSE error.message

\* captureError: hashString(`${message}|${stack || ""}`)
DedupKey(error) ==
    HashString(ErrorMessage(error) \o <<Bar>> \o JoinLines(NormalizeStack(error.stack)))

\* the errors the model captures: two that differ only below the
\* MAX_STACK_LINES-th line of the stack, one with another message and no stack
LongStack(last) == [i \in 1..(MAX_STACK_LINES + 1) |->
                       IF i <= MAX_STACK_LINES THEN <<97>> ELSE <<last>>]
Errors ==
    {[message |-> <<69>>, stack |-> LongStack(98)],
     [message |-> <<69>>, stack |-> LongStack(99)],
     [message |-> <<>>, stack |-> <<>>]}

\* the fingerprints of the errors of the model, computed once
DedupKeys == [error \in Errors |-> DedupKey(error)]

\* a rate window that keeps a timestamp one millisecond longer: now - t <= window
InRateWindowLate(time, t) == time - t <= RATE_LIMIT_WINDOW_MS

\* isRateLimited: now - t < RATE_LIMIT_WINDOW_MS
InRateWindow(time, t) == time - t < RATE_LIMIT_WINDOW_MS

\* isRateLimited: this.errorTimestamps.filter(...)
RateWindowAt(at) ==
    LET Recent(t) == InRateWindow(at, t)
    IN  SelectSeq(errorTimestamps, Recent)

\* isRateLimited: this.errorTimestamps.length >= MAX_ERRORS_PER_WINDOW
RateLimited(time) == Len(RateWindowAt(time)) >= MAX_ERRORS_PER_WINDOW

\* isDuplicate on a fingerprint already in the set: return true, no timer is set
DedupTimersOnDuplicate(hash, time) == dedupTimers

NoPayload == [endpoint |-> "none", ref |-> 0, value |-> 0, visitorId |-> NoId,
              sessionId |-> NoId]
Payload(endpoint, ref, value, visitor, session) ==
    [endpoint |-> endpoint, ref |-> ref, value |-> value, visitorId |-> visitor,
     sessionId |-> session]

\* transport.sendOrQueue(endpoint, payload) called from a handler: the next
\* call of the process, its fetch issued
HandOff(payload) ==
    \E s \in Calls :
        /\ SendOrQueueIssue(s)
        /\ handed' = [handed EXCEPT ![s] = payload]

NoCapture == [outcome |-> "none", hash |-> 0, via |-> "none", passedTo |-> NoHandler]

\* ErrorTracker.captureError (errors.ts:121-152); via is the caller, passedTo
\* the handler the caller hands the error to afterwards
CaptureErrorBody(error, via, passedTo) ==
    LET dedupKey == DedupKeys[error]
        result(outcome) == [outcome |-> outcome, hash |-> dedupKey, via |-> via,
                            passedTo |-> passedTo]
    IN  IF ~initialized
        THEN /\ lastCapture' = result("notReady")
             /\ UNCHANGED <<errorTimestamps, sentErrorHashes, dedupTimers, acceptedAt, sq, handed,
                            touches, sessionId, nextId, pending, lastTouch,
                            sessionTimestamp>>
        ELSE IF RateLimited(now)
        THEN /\ lastCapture' = result("limited")
             /\ errorTimestamps' = RateWindowAt(now)
             /\ UNCHANGED <<sentErrorHashes, dedupTimers, acceptedAt, sq, handed,
                            touches, sessionId, nextId, pending, lastTouch,
                            sessionTimestamp>>
        ELSE IF dedupKey \in sentErrorHashes
        THEN /\ lastCapture' = result("duplicate")
             /\ errorTimestamps' = Append(RateWindowAt(now), now)
             /\ dedupTimers' = DedupTimersOnDuplicate(dedupKey, now)
             /\ UNCHANGED <<sentErrorHashes, acceptedAt, sq, handed,
                            touches, sessionId, nextId, pending, lastTouch,
                            sessionTimestamp>>
        ELSE /\ lastCapture' = result("handed")
             /\ errorTimestamps' = Append(RateWindowAt(now), now)
             /\ sentErrorHashes' = sentErrorHashes \cup {dedupKey}
             /\ dedupTimers' = dedupTimers \cup {[hash |-> dedupKey, due |-> now + DEDUP_EXPIRY_MS]}
             /\ acceptedAt' = {a \in acceptedAt : a.hash # dedupKey}
                               \cup {[hash |-> dedupKey, at |-> now]}
             /\ TouchSession
             /\ HandOff(Payload("errors", dedupKey, 0, visitorId, sessionId'))

\* what every ErrorTracker.captureError call leaves alone
CaptureFrame ==
    /\ overlap' = OverlapAfter(sq' # sq, FALSE)
    /\ UNCHANGED <<stored, flushing, fl, flushRuns, startQueue, sendCount, removedIds,
                   enqDuring, turnedAway>>
    /\ UNCHANGED <<now, visitorId, initialized, kv, initPc, lifetimes, seenVisitors>>
    /\ UNCHANGED <<clientPc, clientInitialized, destroyed, currentScreenName,
                   currentScreenPath, currentScreenViewId, screenStartTime,
                   screenDebounceTimer, isFirstScreen, appStateSubscription, appState,
                   flushTimer, leaked, identifyPc, lastScreenCall>>
    /\ UNCHANGED <<originalHandler, installed, globalHandler, rejectionTracking,
                   handlerLog>>

\* a direct call of captureError or captureMessage (client.ts:170-182): the
\* Error is the one given, or new Error(message)
CaptureError(error) ==
    /\ ~destroyed
    /\ CaptureErrorBody(error, "call", NoHandler)
    /\ CaptureFrame

\* an uncaught error reaches ErrorUtils' global handler: the closure of
\* errors.ts:71-79 if it is the one installed, the foreign handler otherwise
GlobalError(error) ==
    /\ IF globalHandler = TrackerHandler
       THEN CaptureErrorBody(error, "global", originalHandler)
       ELSE /\ lastCapture' = [outcome |-> "foreign", hash |-> DedupKeys[error],
                                via |-> "global", passedTo |-> globalHandler]
            /\ UNCHANGED <<errorTimestamps, sentErrorHashes, dedupTimers, acceptedAt, sq, handed,
                           touches, sessionId, nextId, pending, lastTouch,
                           sessionTimestamp>>
    /\ CaptureFrame

\* a promise rejection nobody handles: onUnhandled of errors.ts:86-93
UnhandledRejection(error) ==
    /\ rejectionTracking
    /\ CaptureErrorBody(error, "rejection", NoHandler)
    /\ CaptureFrame

\* the setTimeout callback of isDuplicate (errors.ts:175-177)
DedupTimerFires ==
    \E d \in dedupTimers :
        /\ now >= d.due
        /\ sentErrorHashes' = sentErrorHashes \ {d.hash}
        /\ dedupTimers' = dedupTimers \ {d}
        /\ UNCHANGED <<errorTimestamps, originalHandler, installed, globalHandler,
                       rejectionTracking, lastCapture, acceptedAt, handlerLog>>
        /\ UNCHANGED <<qvars, svars, cvars>>

\* an install that wraps the global handler on every call
InstallGuardOff == FALSE

\* install: if (this.installed) return
InstallGuard == installed

\* ErrorTracker.install (errors.ts:57-95)
InstallIssue ==
    /\ handlerLog' = [handlerLog EXCEPT
                         !.installs = Min(@ + 1, MaxHandlerCalls),
                         !.last = "install"]
    /\ IF InstallGuard
       THEN UNCHANGED <<originalHandler, installed, globalHandler, rejectionTracking>>
       ELSE /\ installed' = TRUE
            /\ IF HasErrorUtils
               THEN /\ originalHandler' = globalHandler
                    /\ globalHandler' = TrackerHandler
               ELSE UNCHANGED <<originalHandler, globalHandler>>
            /\ rejectionTracking' = TRUE

\* ErrorTracker.uninstall (errors.ts:97-119)
UninstallIssue ==
    /\ handlerLog' = [handlerLog EXCEPT !.uninstalls = Min(@ + 1, MaxHandlerCalls),
                                        !.last = "uninstall"]
    /\ IF ~installed
       THEN UNCHANGED <<originalHandler, installed, globalHandler, rejectionTracking>>
       ELSE /\ IF HasErrorUtils /\ originalHandler # NoHandler
               THEN /\ globalHandler' = originalHandler
                    /\ originalHandler' = NoHandler
               ELSE UNCHANGED <<originalHandler, globalHandler>>
            /\ rejectionTracking' = FALSE
            /\ installed' = FALSE

Install ==
    /\ InstallIssue
    /\ UNCHANGED <<errorTimestamps, sentErrorHashes, dedupTimers, lastCapture, acceptedAt>>
    /\ UNCHANGED <<qvars, svars, cvars>>

Uninstall ==
    /\ UninstallIssue
    /\ UNCHANGED <<errorTimestamps, sentErrorHashes, dedupTimers, lastCapture, acceptedAt>>
    /\ UNCHANGED <<qvars, svars, cvars>>

\* ------------------------------------------------------------ client.ts

MIN_DURATION == 1
MAX_DURATION == 3600
FIRST_SCREEN_DELAY == 300
SUBSEQUENT_SCREEN_DELAY == 1000
MAX_EVENT_NAME_LENGTH == 255

Max(a, b) == IF a > b THEN a ELSE b

\* transport.ts:19, config.flushInterval * 1000
FlushIntervalMs == FlushInterval * 1000

\* the id a server returns from identify after a visitor merge
ServerVisitor == 1000

\* "/"
Slash == 47
\* null or undefined for a screen name or path (no call passes the empty string)
NoScreen == <<>>

\* trackScreen: path ?? `/${name}`
EffectivePath(name, path) == IF path = NoScreen THEN <<Slash>> \o name ELSE path

\* EVENT_NAME_REGEX = /^[a-zA-Z][a-zA-Z0-9_-]*$/ on a string of char codes
IsLetter(c) == c \in 65..90 \/ c \in 97..122
IsNameChar(c) == IsLetter(c) \/ c \in 48..57 \/ c = 95 \/ c = 45
ValidEventName(eventName) ==
    /\ Len(eventName) >= 1
    /\ IsLetter(eventName[1])
    /\ \A i \in 2..Len(eventName) : IsNameChar(eventName[i])
    /\ Len(eventName) <= MAX_EVENT_NAME_LENGTH

\* the event names the model tracks: "a_1", "1a" and ""
EventNames == {<<97, 95, 49>>, <<49, 97>>, <<>>}

NoTimer == [set |-> FALSE, name |-> NoScreen, path |-> NoScreen, viewId |-> NoId, due |-> 0]
NoFlushTimer == [set |-> FALSE, due |-> 0]
NoScreenCall == [name |-> NoScreen, path |-> NoScreen, calls |-> 0, activated |-> 0,
                 payloads |-> 0, unready |-> FALSE, durations |-> 0,
                 durationRepeat |-> FALSE, prior |-> FALSE, activeAtFirst |-> FALSE,
                 cancelled |-> FALSE, deduped |-> FALSE, replaced |-> FALSE]

\* sendScreenDuration: Math.round((Date.now() - this.screenStartTime) / 1000)
DurationSec(time, start) == (time - start + 500) \div 1000

\* sendScreenDuration: Math.max(MIN_DURATION, Math.min(MAX_DURATION, durationSec))
ClampedDuration(durationSec) == Max(MIN_DURATION, Min(MAX_DURATION, durationSec))

\* sendScreenDuration gets past its three returns (client.ts:232-238)
DurationDue ==
    /\ currentScreenViewId # NoId
    /\ screenStartTime # 0
    /\ initialized
    /\ DurationSec(now, screenStartTime) >= MIN_DURATION

\* a sendScreenDuration that leaves the view id and the start time in place
KeepAfterDuration == UNCHANGED <<currentScreenViewId, screenStartTime>>

\* sendScreenDuration: this.currentScreenViewId = null; this.screenStartTime = 0
ClearAfterDuration ==
    /\ currentScreenViewId' = NoId
    /\ screenStartTime' = 0

\* HimetricaClient.sendScreenDuration (client.ts:231-252)
SendScreenDuration ==
    IF DurationDue
    THEN /\ HandOff(Payload("duration", currentScreenViewId,
                            ClampedDuration(DurationSec(now, screenStartTime)),
                            NoId, NoId))
         /\ ClearAfterDuration
    ELSE UNCHANGED <<sq, handed, currentScreenViewId, screenStartTime>>

\* what no handler of the client touches
ClientFrame ==
    /\ UNCHANGED <<stored, startQueue, sendCount, removedIds, enqDuring>>
    /\ UNCHANGED <<now, lifetimes, seenVisitors, kv>>
    /\ UNCHANGED <<errorTimestamps, sentErrorHashes, dedupTimers, lastCapture, acceptedAt>>

NoFlushIssue == UNCHANGED <<flushing, fl, flushRuns, turnedAway>>
NoTouch == UNCHANGED <<touches, sessionId, pending, lastTouch, sessionTimestamp>>
NoHandlerChange ==
    UNCHANGED <<originalHandler, installed, globalHandler, rejectionTracking, handlerLog>>
ScreenUnchanged ==
    UNCHANGED <<currentScreenName, currentScreenPath, isFirstScreen>>

\* client.ts:39-42: init gets past its guard and calls storage.init, which
\* issues multiGet. The guard reads initialized and destroyed only: a call
\* made while an earlier one awaits, or after an earlier one was rejected,
\* starts storage.init again.
ClientInitCall ==
    /\ ~(clientInitialized \/ destroyed)
    /\ FreeInits # {}
    /\ clientPc' = [clientPc EXCEPT ![FreeInit] = "await"]
    /\ initPc' = [initPc EXCEPT ![FreeInit] = "get"]
    /\ pending' = Append(pending, MultiGet(FreeInit))
    /\ UNCHANGED <<clientInitialized, destroyed, currentScreenViewId, screenStartTime,
                   screenDebounceTimer, appStateSubscription, appState, flushTimer,
                   leaked, identifyPc, handed, lastScreenCall>>
    /\ UNCHANGED <<visitorId, initialized, nextId, sq, overlap>>
    /\ UNCHANGED <<touches, sessionId, lastTouch, sessionTimestamp>>
    /\ ScreenUnchanged /\ NoFlushIssue /\ NoHandlerChange /\ ClientFrame

\* an init call is still awaiting storage.init
InitInProgress(i) == clientPc[i] = "await" /\ initPc[i] \in {"get", "set", "ready"}

\* what stays set when Transport.start and addEventListener run again: the
\* interval whose handle this.flushTimer held and the listener whose
\* subscription this.appStateSubscription held
LeakedBy(timer, subscribed) ==
    [timers |-> IF timer.set THEN Append(leaked.timers, timer.due) ELSE leaked.timers,
     listeners |-> IF subscribed THEN leaked.listeners + 1 ELSE leaked.listeners]

\* client.ts:44-56: storage.init has resolved; transport.start sets the
\* interval and calls flush, the handlers are installed, the app-state
\* listener is subscribed
ClientInitResume ==
    \E i \in Inits :
        /\ clientPc[i] = "await"
        /\ initPc[i] = "ready"
        /\ clientPc' = [clientPc EXCEPT ![i] = "done"]
        /\ flushTimer' = [set |-> TRUE, due |-> now + FlushIntervalMs]
        /\ leaked' = LeakedBy(flushTimer, appStateSubscription)
        /\ FlushIssue
        /\ overlap' = OverlapAfter(FALSE, ~FlushGuard)
        /\ IF AutoTrackErrors THEN InstallIssue ELSE NoHandlerChange
        /\ appStateSubscription' = TRUE
        /\ clientInitialized' = TRUE
        /\ UNCHANGED <<destroyed, currentScreenViewId, screenStartTime,
                       screenDebounceTimer, appState, identifyPc, handed, lastScreenCall>>
        /\ UNCHANGED <<visitorId, initialized, initPc, nextId, sq>>
        /\ ScreenUnchanged /\ NoTouch /\ ClientFrame

\* a trackScreen that never takes a call for a repeat
SameScreenNever(name, effectivePath) == FALSE

\* trackScreen: this.currentScreenName === name && this.currentScreenPath === effectivePath
SameScreen(name, effectivePath) ==
    currentScreenName = name /\ currentScreenPath = effectivePath

\* a trackScreen that waits the same time for every screen
DebounceDelayFixed == SUBSEQUENT_SCREEN_DELAY

\* trackScreen: this.isFirstScreen ? FIRST_SCREEN_DELAY : SUBSEQUENT_SCREEN_DELAY
DebounceDelay ==
    IF isFirstScreen THEN FIRST_SCREEN_DELAY ELSE SUBSEQUENT_SCREEN_DELAY

\* HimetricaClient.trackScreen (client.ts:59-105), up to setTimeout
TrackScreen(name, path) ==
    LET effectivePath == EffectivePath(name, path)
        same == SameScreen(name, effectivePath)
        delay == DebounceDelay
        replaces == /\ ~same
                    /\ screenDebounceTimer.set
                    /\ <<screenDebounceTimer.name, screenDebounceTimer.path>>
                          # <<name, effectivePath>>
        repeat == /\ lastScreenCall.calls > 0
                  /\ lastScreenCall.name = name
                  /\ lastScreenCall.path = effectivePath
        emits == ~same /\ DurationDue
    IN  /\ ~destroyed
        /\ lastScreenCall' =
              IF repeat
              THEN [lastScreenCall EXCEPT !.calls = Min(@ + 1, 2),
                                          !.durations = IF emits THEN Min(@ + 1, 2) ELSE @,
                                          !.durationRepeat = @ \/ emits,
                                          !.deduped = same,
                                          !.replaced = @ \/ replaces]
              ELSE [NoScreenCall EXCEPT !.name = name, !.path = effectivePath,
                                        !.calls = 1,
                                        !.durations = IF emits THEN 1 ELSE 0,
                                        !.prior = currentScreenName # NoScreen,
                                        !.activeAtFirst = same,
                                        !.deduped = same,
                                        !.replaced = replaces]
        /\ IF same
           THEN UNCHANGED <<sq, handed, currentScreenViewId, screenStartTime,
                            screenDebounceTimer, nextId, overlap>>
           ELSE /\ SendScreenDuration
                /\ nextId <= MaxIds
                /\ screenDebounceTimer' = [set |-> TRUE, name |-> name,
                                           path |-> effectivePath, viewId |-> GenerateId,
                                           due |-> now + delay]
                /\ nextId' = nextId + 1
                /\ overlap' = OverlapAfter(DurationDue, FALSE)
        /\ UNCHANGED <<clientPc, clientInitialized, destroyed, appStateSubscription,
                       appState, flushTimer, leaked, identifyPc>>
        /\ UNCHANGED <<visitorId, initialized, initPc>>
        /\ ScreenUnchanged /\ NoFlushIssue /\ NoTouch /\ NoHandlerChange /\ ClientFrame

\* the setTimeout callback of trackScreen (client.ts:80-104)
ScreenTimerFires ==
    /\ screenDebounceTimer.set
    /\ now >= screenDebounceTimer.due
    /\ currentScreenName' = screenDebounceTimer.name
    /\ currentScreenPath' = screenDebounceTimer.path
    /\ currentScreenViewId' = screenDebounceTimer.viewId
    /\ screenStartTime' = now
    /\ isFirstScreen' = FALSE
    /\ screenDebounceTimer' = NoTimer
    /\ lastScreenCall' =
          IF /\ screenDebounceTimer.name = lastScreenCall.name
             /\ screenDebounceTimer.path = lastScreenCall.path
          THEN [lastScreenCall EXCEPT
                  !.activated = Min(@ + 1, 2),
                  !.payloads = IF initialized THEN Min(@ + 1, 2) ELSE @,
                  !.unready = @ \/ ~initialized]
          ELSE lastScreenCall
    /\ IF ~initialized
       THEN /\ UNCHANGED <<sq, handed, overlap, nextId>>
            /\ NoTouch
       ELSE /\ TouchSession
            /\ HandOff(Payload("screen", screenDebounceTimer.viewId, 0, visitorId,
                               sessionId'))
            /\ overlap' = OverlapAfter(TRUE, FALSE)
    /\ UNCHANGED <<clientPc, clientInitialized, destroyed, appStateSubscription,
                   appState, flushTimer, leaked, identifyPc>>
    /\ UNCHANGED <<visitorId, initialized, initPc>>
    /\ NoFlushIssue /\ NoHandlerChange /\ ClientFrame

\* HimetricaClient.track (client.ts:107-130)
Track(eventName) ==
    /\ ~destroyed
    /\ initialized
    /\ ValidEventName(eventName)
    /\ TouchSession
    /\ HandOff(Payload("event", 0, 0, visitorId, sessionId'))
    /\ overlap' = OverlapAfter(TRUE, FALSE)
    /\ UNCHANGED <<clientPc, clientInitialized, destroyed, currentScreenViewId,
                   screenStartTime, screenDebounceTimer, appStateSubscription, appState,
                   flushTimer, leaked, identifyPc, lastScreenCall>>
    /\ UNCHANGED <<visitorId, initialized, initPc>>
    /\ ScreenUnchanged /\ NoFlushIssue /\ NoHandlerChange /\ ClientFrame

\* what is left alone by every step of identify
IdentifyFrame ==
    /\ UNCHANGED <<clientPc, clientInitialized, destroyed, currentScreenViewId,
                   screenStartTime, screenDebounceTimer, appStateSubscription, appState,
                   flushTimer, leaked, handed, lastScreenCall>>
    /\ UNCHANGED <<initialized, initPc, sq, overlap>>
    /\ ScreenUnchanged /\ NoFlushIssue /\ NoHandlerChange /\ ClientFrame

\* the identify calls not awaiting their fetch or their response.json()
SettledIdentifies == {c \in Identifies : identifyPc[c] \notin {"fetch", "json"}}
NextIdentify == CHOOSE c \in SettledIdentifies : \A d \in SettledIdentifies : c <= d

\* HimetricaClient.identify (client.ts:132-156), up to the fetch; calls made
\* while another awaits run side by side
IdentifyCall ==
    /\ ~destroyed
    /\ initialized
    /\ SettledIdentifies # {}
    /\ TouchSession
    /\ identifyPc' = [identifyPc EXCEPT ![NextIdentify] = "fetch"]
    /\ UNCHANGED visitorId
    /\ IdentifyFrame

\* client.ts:149-159 and 164-166: the fetch of a call settles; ok is
\* response.ok (false also for a fetch that throws). With ok, response.json()
\* is awaited.
IdentifyFetched(ok) ==
    \E c \in Identifies :
        /\ identifyPc[c] = "fetch"
        /\ identifyPc' = [identifyPc EXCEPT ![c] = IF ok THEN "json" ELSE "failed"]
        /\ UNCHANGED <<visitorId, pending, nextId, touches, sessionId, lastTouch,
                       sessionTimestamp>>
        /\ IdentifyFrame

\* client.ts:160: result.visitorId is truthy (not undefined, null or "")
Truthy(resultVisitor) == resultVisitor # Null /\ resultVisitor # NoId

\* client.ts:159-166: response.json() of a call settles; resultVisitor is
\* result.visitorId, Null if it is absent or json() rejected (the catch logs)
IdentifyDone(resultVisitor) ==
    \E c \in Identifies :
        /\ identifyPc[c] = "json"
        /\ identifyPc' = [identifyPc EXCEPT ![c] = "done"]
        /\ IF Truthy(resultVisitor) /\ resultVisitor # visitorId
           THEN /\ Len(pending) < MaxPending
                /\ visitorId' = resultVisitor
                /\ pending' = Append(pending, [visitor |-> resultVisitor, session |-> Null,
                                               timestamp |-> Null, init |-> NotAwaited])
           ELSE UNCHANGED <<visitorId, pending>>
        /\ UNCHANGED <<nextId, touches, sessionId, lastTouch, sessionTimestamp>>
        /\ IdentifyFrame

\* HimetricaClient.flush (client.ts:188-191), up to the await
ClientFlush ==
    /\ SendScreenDuration
    /\ FlushIssue
    /\ overlap' = OverlapAfter(DurationDue, ~FlushGuard)
    /\ UNCHANGED <<clientPc, clientInitialized, destroyed, screenDebounceTimer,
                   appStateSubscription, appState, flushTimer, leaked, identifyPc,
                   lastScreenCall>>
    /\ UNCHANGED <<visitorId, initialized, initPc, nextId>>
    /\ ScreenUnchanged /\ NoTouch /\ NoHandlerChange /\ ClientFrame

\* HimetricaClient.destroy (client.ts:193-211)
Destroy ==
    /\ ~destroyed
    /\ destroyed' = TRUE
    /\ SendScreenDuration
    /\ screenDebounceTimer' = NoTimer
    /\ lastScreenCall' = [lastScreenCall EXCEPT !.cancelled = @ \/ screenDebounceTimer.set]
    /\ appStateSubscription' = FALSE
    /\ UninstallIssue
    /\ flushTimer' = NoFlushTimer
    /\ overlap' = OverlapAfter(DurationDue, FALSE)
    /\ UNCHANGED <<clientPc, clientInitialized, appState, leaked, identifyPc>>
    /\ UNCHANGED <<visitorId, initialized, initPc, nextId>>
    /\ ScreenUnchanged /\ NoFlushIssue /\ NoTouch /\ ClientFrame

AppStates == {"active", "inactive", "background"}
Backgrounded(state) == state \in {"inactive", "background"}

\* HimetricaClient.handleAppStateChange (client.ts:213-229), called by every
\* listener client.ts:50 has added and destroy has not removed; a second
\* listener's call finds appState = nextState and takes neither branch
AppStateChange(nextState) ==
    /\ appStateSubscription \/ leaked.listeners > 0
    /\ appState' = nextState
    /\ IF appState = "active" /\ Backgrounded(nextState)
       THEN /\ SendScreenDuration
            /\ FlushIssue
            /\ overlap' = OverlapAfter(DurationDue, ~FlushGuard)
            /\ UNCHANGED nextId
            /\ NoTouch
       ELSE IF Backgrounded(appState) /\ nextState = "active"
       THEN /\ IF initialized THEN TouchSession ELSE (NoTouch /\ UNCHANGED nextId)
            /\ FlushIssue
            /\ overlap' = OverlapAfter(FALSE, ~FlushGuard)
            /\ UNCHANGED <<sq, handed, currentScreenViewId, screenStartTime>>
       ELSE /\ UNCHANGED <<sq, handed, currentScreenViewId, screenStartTime, overlap,
                           nextId>>
            /\ NoFlushIssue /\ NoTouch
    /\ UNCHANGED <<clientPc, clientInitialized, destroyed, screenDebounceTimer,
                   appStateSubscription, flushTimer, leaked, identifyPc, lastScreenCall>>
    /\ UNCHANGED <<visitorId, initialized, initPc>>
    /\ ScreenUnchanged /\ NoHandlerChange /\ ClientFrame

\* what a tick of an interval leaves alone
TickFrame ==
    /\ UNCHANGED <<stored, sq, startQueue, sendCount, removedIds, enqDuring>>
    /\ UNCHANGED <<clientPc, clientInitialized, destroyed, currentScreenName,
                   currentScreenPath, currentScreenViewId, screenStartTime,
                   screenDebounceTimer, isFirstScreen, appStateSubscription, appState,
                   identifyPc, handed, lastScreenCall>>
    /\ UNCHANGED <<svars, evars>>

\* the setInterval callback of Transport.start (transport.ts:17-19); counting
\* says whether the flush it calls keeps the histories
FlushTimerTickCounted(counting) ==
    /\ flushTimer.set
    /\ now >= flushTimer.due
    /\ flushTimer' = [flushTimer EXCEPT !.due = @ + FlushIntervalMs]
    /\ FlushIssueCounted(counting)
    /\ overlap' = OverlapAfter(FALSE, ~FlushGuard)
    /\ UNCHANGED leaked
    /\ TickFrame

FlushTimerTick == FlushTimerTickCounted(TRUE)

\* the same callback of an interval that an earlier Transport.start set and
\* whose handle the next start overwrote: Transport.stop cannot clear it
LeakedTimerTick ==
    \E k \in 1..Len(leaked.timers) :
        /\ now >= leaked.timers[k]
        /\ leaked' = [leaked EXCEPT !.timers[k] = @ + FlushIntervalMs]
        /\ FlushIssue
        /\ overlap' = OverlapAfter(FALSE, ~FlushGuard)
        /\ UNCHANGED flushTimer
        /\ TickFrame

\* time passes: d milliseconds. A timer's callback runs at its due time or
\* later, whenever the runtime gets to it, so time can pass a due timer.
Advance(d) ==
    /\ now' = now + d
    /\ UNCHANGED <<visitorId, sessionId, sessionTimestamp, initialized, kv, pending,
                   initPc, nextId, lifetimes, touches, lastTouch, seenVisitors>>
    /\ UNCHANGED <<qvars, cvars, evars>>

\* ------------------------------------------------------------ specifications

InFlightCalls == {s \in Calls : InFlight(s)}

\* concurrent sendOrQueue calls, no flush
NextEnqueue ==
    \/ \E s \in Calls : Cardinality(Started) < MaxConcurrentCalls /\ SendOrQueueCall(s)
    \/ \E s \in Calls : SendOrQueueStep(s)
    \/ \E s \in Calls : SendOrQueueStepFails(s)

\* sendOrQueue calls one after the other, no flush, over a store whose reads
\* and writes can fail
NextSeq ==
    \/ \E s \in Calls : InFlightCalls = {} /\ SendOrQueueCall(s)
    \/ \E s \in Calls : SendOrQueueStep(s)
    \/ \E s \in Calls : SendOrQueueStepFails(s)

\* flush calls only
NextFlush ==
    \/ FlushCall
    \/ \E f \in Flushers : FlushStep(f)

\* flush calls and sendOrQueue calls
Next ==
    \/ \E s \in Calls : /\ Cardinality(Started) < MaxFlushCalls
                         /\ Cardinality(InFlightCalls) < MaxInFlight
                         /\ SendOrQueueCall(s)
    \/ \E s \in Calls : SendOrQueueStep(s)
    \/ (FlushGuard \/ flushRuns < MaxJointRuns) /\ FlushCall
    \/ \E f \in Flushers : FlushStep(f)

\* the queue an earlier lifetime left is flushed, then sendOrQueue calls are
\* made one after the other
NextOrder ==
    \/ \E s \in Calls : /\ Cardinality(Started) < MaxFlushCalls
                         /\ InFlightCalls = {}
                         /\ \A f \in Flushers : ~Running(f)
                         /\ SendOrQueueCall(s)
    \/ \E s \in Calls : SendOrQueueStep(s)
    \/ \E s \in Calls : SendOrQueueStepFails(s)
    \/ Started = {} /\ (FlushGuard \/ flushRuns = 0) /\ FlushCall
    \/ \E f \in Flushers : FlushStep(f)
    \/ \E f \in Flushers : FlushStepFails(f)

\* the flush of the queue an earlier lifetime left, over a store whose reads
\* and writes can fail; flush calls made while it runs return at the guard
NextCompletion ==
    \/ (FlushGuard \/ flushRuns = 0) /\ FlushCall
    \/ \E f \in Flushers : FlushStep(f)
    \/ \E f \in Flushers : FlushStepFails(f)

\* every send and every storage call of a running flush settles
FairCompletion == WF_vars(\E f \in Flushers : FlushStep(f) \/ FlushStepFails(f))

InitSeq == InitTracker /\ InitStore /\ InitQueue(<<>>)

Spec == Init /\ [][Next]_vars
SpecEnqueue == Init /\ [][NextEnqueue]_vars
SpecSeq == InitSeq /\ [][NextSeq]_vars
SpecFlush == Init /\ [][NextFlush]_vars
SpecOrder == Init /\ [][NextOrder]_vars
SpecCompletion == Init /\ [][NextCompletion]_vars /\ FairCompletion
SpecStore == InitSeq /\ [][NextStore]_vars
SpecReinit == InitSeq /\ [][NextReinit]_vars

\* the inputs of the client's handlers
ScreenSteps == {300, 1000}
\* the screens "A", "B", ...
ScreenNames == {<<64 + i>> : i \in 1..MaxScreens}
FirstScreen == <<65>>
\* trackScreen(name) for every name, and trackScreen("A", "/A")
ScreenCalls ==
    {<<name, NoScreen>> : name \in ScreenNames}
        \cup {<<FirstScreen, <<Slash>> \o FirstScreen>>}
ForegroundStates == {"active", "background"}
\* init called once, as HimetricaProvider calls it (provider.tsx:22)
InitSteps ==
    \/ NoInitYet /\ ClientInitCall
    \/ StorageInitGot
    \/ StorageInitSet
    \/ ClientInitResume
ScreenClock == \E d \in ScreenSteps : now + d <= StartTime + MaxScreenClock /\ Advance(d)

\* the screens of a client whose init has resolved: trackScreen, its timer,
\* and what emits a duration; requests and storage writes stay in flight
NextScreens ==
    \/ InitSteps
    \/ \E call \in ScreenCalls : clientInitialized /\ TrackScreen(call[1], call[2])
    \/ ScreenTimerFires
    \/ ClientFlush
    \/ Destroy
    \/ \E nextState \in ForegroundStates : AppStateChange(nextState)
    \/ FlushTimerTick
    \/ clientInitialized /\ ScreenClock

\* the tracking calls around the moment the store becomes ready; errors are
\* captured while it is not (the error tracker has its own specifications)
NextReady ==
    \/ InitSteps
    \/ TrackScreen(FirstScreen, NoScreen)
    \/ ScreenTimerFires
    \/ \E eventName \in EventNames : Track(eventName)
    \/ IdentifyCall
    \/ \E ok \in BOOLEAN : IdentifyFetched(ok)
    \/ \E resultVisitor \in {Null, NoId, ServerVisitor} : IdentifyDone(resultVisitor)
    \/ \E error \in Errors : ~initialized /\ CaptureError(error)
    \/ now + SUBSEQUENT_SCREEN_DELAY <= StartTime + MaxScreenClock
          /\ Advance(SUBSEQUENT_SCREEN_DELAY)

\* init, called as often as its guard lets it run, and destroy, with the
\* timers they start and stop
NextTeardown ==
    \/ ClientInitCall
    \/ StorageInitGot
    \/ StorageInitSet
    \/ ClientInitResume
    \/ TrackScreen(FirstScreen, NoScreen)
    \/ ScreenTimerFires
    \/ FlushTimerTick
    \/ LeakedTimerTick
    \/ Destroy
    \/ now + FlushIntervalMs <= StartTime + MaxScreenClock /\ Advance(FlushIntervalMs)

\* the error tracker: captures, the rate window and the dedup set over time
ErrorSteps == {30000, 270000}
NextErrors ==
    \/ NoInitYet /\ StorageInitCall
    \/ StorageInitGot
    \/ StorageInitSet
    \/ \E error \in Errors : CaptureError(error)
    \/ DedupTimerFires
    \/ \E d \in ErrorSteps : initialized /\ now + d <= StartTime + MaxErrorClock /\ Advance(d)

\* the error tracker: the global handlers
NextHandlers ==
    \/ NoInitYet /\ StorageInitCall
    \/ StorageInitGot
    \/ StorageInitSet
    \/ Install
    \/ Uninstall
    \/ \E error \in Errors : GlobalError(error)
    \/ \E error \in Errors : UnhandledRejection(error)
    \/ ApplyWrite

InitErrors ==
    /\ InitClientIn("active") /\ InitStore /\ InitQueue(<<>>)
    /\ \E handler \in ForeignHandlers : InitErrorsWith(handler)

\* a tracker built in any app state, on an empty store
InitScreens == InitClient /\ InitErrorsWith("default") /\ InitStore /\ InitQueue(<<>>)

SpecScreens == InitScreens /\ [][NextScreens]_vars
SpecReady == InitSeq /\ [][NextReady]_vars
SpecTeardown == InitSeq /\ [][NextTeardown]_vars
SpecErrors == InitErrors /\ [][NextErrors]_vars
SpecHandlers == InitErrors /\ [][NextHandlers]_vars

\* every kind of call, one at a time, each send succeeding or failing; the
\* flush that init starts stays at its queue read
NoCallPending == InFlightCalls = {} /\ SettledIdentifies = Identifies
NextDelivery ==
    \/ InitSteps
    \/ \E name \in ScreenNames : NoCallPending /\ clientInitialized /\ TrackScreen(name, NoScreen)
    \/ NoCallPending /\ ScreenTimerFires
    \/ NoCallPending /\ ClientFlush
    \/ \E eventName \in EventNames : NoCallPending /\ Track(eventName)
    \/ \E error \in Errors : NoCallPending /\ errorTimestamps = <<>> /\ CaptureError(error)
    \/ NoCallPending /\ IdentifyCall
    \/ \E ok \in BOOLEAN : IdentifyFetched(ok)
    \/ IdentifyDone(Null)
    \/ \E s \in Calls : SendOrQueueStep(s)
    \/ NoCallPending /\ (screenDebounceTimer.set \/ currentScreenViewId # NoId)
          /\ now + SUBSEQUENT_SCREEN_DELAY <= StartTime + MaxDeliveryClock
          /\ Advance(SUBSEQUENT_SCREEN_DELAY)
SpecDelivery == InitSeq /\ [][NextDelivery]_vars

\* a client that starts on the queue an earlier lifetime left: init starts
\* the transport, the interval ticks as time passes, every send and every
\* storage call of a flush settles or fails, and no sendOrQueue call is made;
\* the clock of the model starts with the interval
DrainClock ==
    /\ flushTimer.set
    /\ now + FlushIntervalMs <= StartTime + MaxDrainTicks * FlushIntervalMs
    /\ Advance(FlushIntervalMs)
NextDrain ==
    \/ InitSteps
    \/ FlushTimerTickCounted(FALSE)
    \/ \E f \in Flushers : FlushStepCounted(f, FALSE)
    \/ \E f \in Flushers : FlushStepFails(f)
    \/ DrainClock
SpecDrain == Init /\ [][NextDrain]_vars

InitLeftOver == InitTracker /\ InitQueue(<<>>) /\ \E left \in LeftOverStores : InitStoreWith(left)
SpecInit == InitLeftOver /\ [][NextInit]_vars

\* ------------------------------------------------------------ claims

Failed == {s \in Calls : sq[s].pc = "queued"}
Quiet == InFlightCalls = {}
NoFlushEver == flushRuns = 0 /\ \A f \in Flushers : ~Running(f)
CountOf(q, id) == Cardinality({i \in 1..Len(q) : q[i].id = id})

\* C1: when no flush runs and fewer than maxQueueSize events are involved,
\* once every sendOrQueue call has completed the persisted queue holds exactly
\* one entry for each call whose send failed (and none for the others).
C1_NoEventLoss ==
    (Quiet /\ NoFlushEver /\ Len(startQueue) + Cardinality(Failed) < MaxQueueSize)
    => \A s \in Calls :
           CountOf(stored, GenerateEventId(s)) = IF s \in Failed THEN 1 ELSE 0

\* what the spec says a flush leaves of its batch: the delivered events and
\* the events out of retries removed, the others kept in place, retried once more
RECURSIVE FlushOutcome(_, _)
FlushOutcome(batch, tasks) ==
    IF batch = <<>> THEN <<>>
    ELSE IF ~Head(tasks).ok /\ Head(batch).retryCount < MaxRetries
         THEN <<QueuedEvent(Head(batch).id, Head(batch).retryCount + 1)>>
              \o FlushOutcome(Tail(batch), Tail(tasks))
         ELSE FlushOutcome(Tail(batch), Tail(tasks))

\* C2: when a flush of a queue of at most 50 events completes and no
\* sendOrQueue call was in flight during it, the persisted queue is the
\* pre-flush queue with the delivered events removed, the failed events with
\* retryCount < 3 kept in place with retryCount + 1, and the failed events with
\* retryCount >= 3 removed.
C2_FlushOutcome ==
    \A f \in Flushers :
        (Settled(f) /\ ~overlap /\ Len(fl[f].batch) <= BatchSize)
        => stored = FlushOutcome(fl[f].batch, fl[f].tasks)

\* C3: flush sends each queued event at most 4 times, and no entry of the
\* persisted queue has a retryCount above 3.
C3_RetryBound ==
    /\ \A id \in AllIds : sendCount[id] <= MaxRetries + 1
    /\ \A i \in 1..Len(stored) : stored[i].retryCount <= MaxRetries

\* C4: the persisted queue never holds more than maxQueueSize entries.
C4_BoundedQueue == Len(stored) <= MaxQueueSize

\* the events of the calls whose send failed, in the order of the calls
RECURSIVE EnqueuedUpTo(_)
EnqueuedUpTo(s) ==
    IF s = 0 THEN <<>>
    ELSE IF s \in Failed
         THEN Append(EnqueuedUpTo(s - 1), QueuedEvent(GenerateEventId(s), 0))
         ELSE EnqueuedUpTo(s - 1)

NewestOf(q, n) == SubSeq(q, Len(q) - Min(n, Len(q)) + 1, Len(q))

\* C5: after n enqueues made one after the other, with no flush, the
\* persisted queue holds exactly the min(n, maxQueueSize) most recently
\* enqueued events, in enqueue order.
C5_PruneKeepsNewest ==
    Quiet => stored = NewestOf(EnqueuedUpTo(MaxCalls), MaxQueueSize)

\* C6: an event that removeEvent removed or pruneQueue dropped is never in the
\* persisted queue again.
C6_NoResurrection == removedIds \cap QueueIds(stored) = {}

\* at most one flush is past the guard, and the flag is set exactly then
AtMostOneFlush ==
    /\ Cardinality({f \in Flushers : Running(f)}) <= 1
    /\ flushing <=> \E f \in Flushers : Running(f)

\* a flush call that returns at the guard changes nothing: no read of the
\* queue, no send, the flag still held by the running flush
TurnedAwayIsNoop ==
    (~turnedAway /\ turnedAway')
    => /\ flushing /\ flushing'
       /\ \E f \in Flushers : Running(f)
       /\ UNCHANGED <<stored, fl, sendCount, flushRuns>>

\* C7: at most one flush batch is in progress at any time, and a flush
\* request made while a flush is in progress returns without reading the
\* queue, without sending and without clearing the guard.
C7_FlushGuard == AtMostOneFlush /\ [][AtMostOneFlush' /\ TurnedAwayIsNoop]_vars

\* C7 witness: a flush is sending its batch and a flush call made meanwhile
\* was turned away.
C7_Witness ==
    /\ \E f \in Flushers : fl[f].pc = "run"
    /\ turnedAway
    /\ flushing

\* C8: an event enqueued after a flush selected its batch is not in that
\* batch and is in the persisted queue when that flush completes.
C8_EnqueueDuringFlush ==
    \A f \in Flushers :
        Settled(f) => \A id \in enqDuring :
                          /\ id \notin QueueIds(fl[f].batch)
                          /\ id \in QueueIds(stored)

\* C9: a getSessionId call made more than sessionTimeout after the last
\* activity returns an id that was never generated before, a call made at
\* most sessionTimeout after it returns the id unchanged, and both set the
\* last-activity timestamp to the time of the call.
C9_SessionRotation ==
    [][touches' = touches + 1
       => /\ IF now - sessionTimestamp > SessionTimeout
             THEN sessionId' \notin 0..(nextId - 1)
             ELSE sessionId' = sessionId
          /\ sessionTimestamp' = now]_vars

\* C9 witness: a second or later getSessionId call has just rotated the session.
C9_Witness ==
    /\ lastTouch = "rotated"
    /\ touches >= 2
    /\ sessionTimestamp = now

\* C10: once an init has completed, getVisitorId returns one and the same id
\* after every init on the same store: an init takes the id from the store
\* and generates none.
C10_VisitorStable ==
    /\ Cardinality(seenVisitors) <= 1
    /\ ((\E i \in Inits : initPc[i] \in {"set", "ready"}) /\ seenVisitors # {})
          => seenVisitors = {visitorId}
    /\ initialized => seenVisitors = {visitorId}

\* C11: no public operation rejects or throws when a storage read or write
\* fails during it; in particular init resolves when multiGet or multiSet
\* fails.
C11_NoFailureSurfaces == \A i \in Inits : initPc[i] # "rejected"

\* the stored session state is missing or corrupt: no session id, no
\* timestamp, or a timestamp that is not a parsable integer
StoredSessionBroken ==
    \/ kv.session \in {Null, NoId}
    \/ kv.timestamp = Null
    \/ ParseStoredTimestamp(kv.timestamp) = NaN

\* C12: an init that finds the persisted session id missing, or the persisted
\* timestamp missing or not a parsable integer, generates a new session id
\* with last activity = now; it keeps the stored id only when the id is there
\* and a valid timestamp shows now - timestamp <= sessionTimeout; and the
\* timestamp it persists is a valid integer.
C12_InitRegenerates ==
    [][/\ (\E i \in Inits : initPc[i] = "get" /\ initPc'[i] = "set")
          => /\ StoredSessionBroken
                => /\ sessionId' \notin 0..(nextId - 1)
                   /\ sessionTimestamp' = now
             /\ sessionId' = kv.session
                => /\ ~StoredSessionBroken
                   /\ now - ParseStoredTimestamp(kv.timestamp) <= SessionTimeout
       /\ (\E i \in Inits : initPc[i] = "set" /\ initPc'[i] = "ready")
             => kv'.timestamp >= 0]_vars

\* C13: while the identity store is not ready, no call to track, trackScreen,
\* identify or captureError (nor the timer a trackScreen sets) hands a payload
\* to sendOrQueue or to the network, and none changes the active screen
\* name, path and view id, the first-screen flag, the rate window, the dedup
\* set or the session.
C13_ReadinessGating ==
    [][(~initialized /\ initPc' = initPc)
          => /\ UNCHANGED <<sq, handed, identifyPc>>
             /\ UNCHANGED <<currentScreenName, currentScreenPath, currentScreenViewId,
                            isFirstScreen>>
             /\ UNCHANGED <<errorTimestamps, sentErrorHashes, sessionId,
                            sessionTimestamp>>]_vars

\* the last trackScreen calls were two or more with the same (name, effective
\* path), and the timer they set has fired (destroy did not cancel it) or
\* was never needed
ScreenCalledTwice ==
    /\ lastScreenCall.calls >= 2
    /\ ~screenDebounceTimer.set
    /\ ~lastScreenCall.cancelled

\* C14 as stated: two consecutive trackScreen calls with the same (name,
\* effective path) produce exactly one activation with one payload to the
\* screen endpoint, the second call causes no duration event, and with no
\* prior screen no duration event is sent at all.
C14_TrackScreenIdempotent ==
    /\ ~lastScreenCall.durationRepeat
    /\ ~lastScreenCall.prior => lastScreenCall.durations = 0
    /\ ScreenCalledTwice
          => lastScreenCall.activated = 1 /\ lastScreenCall.payloads = 1

\* C14: two consecutive trackScreen calls with the same (name, effective
\* path), whether the second arrives before or after the first one's
\* debounce timer fires, produce at most one activation of that screen, each
\* activation with one payload to the screen endpoint, and exactly one
\* activation when the screen was not the active screen at the first call;
\* the two calls together emit at most one duration event, and none when no
\* screen was activated before the first call.
C14_TrackScreenAtMostOnce ==
    /\ lastScreenCall.activated <= 1
    /\ lastScreenCall.payloads = lastScreenCall.activated
    /\ lastScreenCall.durations <= 1
    /\ ~lastScreenCall.prior => lastScreenCall.durations = 0
    /\ (ScreenCalledTwice /\ ~lastScreenCall.activeAtFirst)
          => lastScreenCall.activated = 1

\* a screen is tracked twice while another view is active: the repeat emits
\* that view's duration, and the screen is activated once
C14_Witness ==
    /\ ScreenCalledTwice
    /\ lastScreenCall.durationRepeat
    /\ lastScreenCall.activated = 1
    /\ lastScreenCall.payloads = 1
    /\ currentScreenName = lastScreenCall.name

\* the screen view ids of the duration events handed to sendOrQueue
DurationEvents == {s \in Calls : handed[s].endpoint = "duration"}

\* C20: at most one duration event is emitted for each screenViewId, over any
\* sequence of trackScreen, flush, destroy and foreground/background
\* transitions, and the step that emits one clears the active view id and the
\* start time.
C20_DurationOnce ==
    /\ [](\A s, t \in DurationEvents : handed[s].ref = handed[t].ref => s = t)
    /\ [][\A s \in Calls :
             (handed[s].endpoint # "duration" /\ handed'[s].endpoint = "duration")
                => /\ handed'[s].ref = currentScreenViewId
                   /\ currentScreenViewId # NoId
                   /\ currentScreenViewId' = NoId
                   /\ screenStartTime' = 0]_vars

\* duration events were emitted for two views, and the screen that is still
\* the active one has no view id left to emit for
C20_Witness ==
    /\ Cardinality(DurationEvents) >= 2
    /\ currentScreenName # NoScreen
    /\ currentScreenViewId = NoId
    /\ ~screenDebounceTimer.set

\* C18: once destroy has been called and no init is still awaiting storage,
\* no periodic flush timer and no screen-activation timer is pending, the
\* global error handler is not installed and no app-state listener is
\* subscribed.
C18_TeardownCancels ==
    (destroyed /\ \A i \in Inits : ~InitInProgress(i))
        => /\ ~flushTimer.set
           /\ leaked.timers = <<>>
           /\ leaked.listeners = 0
           /\ ~screenDebounceTimer.set
           /\ ~installed
           /\ globalHandler # TrackerHandler
           /\ ~appStateSubscription

\* the queue holds a new entry with retryCount 0 after the step
PersistedNew == \E i \in 1..Len(stored') : /\ stored'[i].retryCount = 0
                                            /\ stored'[i].id \notin QueueIds(stored)

\* C19: for each of track, trackScreen (screen view and duration),
\* captureError and identify, a payload whose immediate send fails is
\* persisted as a new entry of the delivery queue with retryCount 0: a
\* sendOrQueue call that failed to send returns with its event in the queue,
\* and an identify whose request failed leaves a new entry in the queue.
C19_FailedSendsPersisted ==
    [][/\ \A s \in Calls :
             (sq[s].pc # "queued" /\ sq'[s].pc = "queued")
                => \E i \in 1..Len(stored') :
                      stored'[i] = QueuedEvent(GenerateEventId(s), 0)
       /\ \A s \in Calls :
             (sq[s].pc = "send" /\ sq'[s].pc \notin {"send", "sent"})
                => sq'[s].pc = "enqRead"
       /\ (\E c \in Identifies : identifyPc[c] = "fetch" /\ identifyPc'[c] = "failed")
             => PersistedNew]_vars

\* the recorded timestamps younger than the rate window
Young == {i \in 1..Len(errorTimestamps) : now - errorTimestamps[i] < RATE_LIMIT_WINDOW_MS}

\* the step is a captureError on a ready store
CaptureChecked ==
    /\ initialized
    /\ errorTimestamps' # errorTimestamps \/ lastCapture' # lastCapture

\* C15: the rate window never holds more than 10 timestamps, and after each
\* check all of them are less than 60 seconds old; a capture arriving when 10
\* recorded timestamps are younger than 60 seconds is dropped, recording no
\* timestamp and handing nothing to sendOrQueue; a capture arriving when fewer
\* than 10 are is accepted by the rate limiter, which records its timestamp.
C15_RateLimit ==
    /\ [](Len(errorTimestamps) <= MAX_ERRORS_PER_WINDOW)
    /\ [][CaptureChecked
             => /\ \A i \in 1..Len(errorTimestamps') :
                      now - errorTimestamps'[i] < RATE_LIMIT_WINDOW_MS
                /\ IF Cardinality(Young) >= MAX_ERRORS_PER_WINDOW
                   THEN /\ lastCapture'.outcome = "limited"
                        /\ Len(errorTimestamps') = Cardinality(Young)
                        /\ UNCHANGED <<handed, sq, sentErrorHashes>>
                   ELSE /\ lastCapture'.outcome \in {"duplicate", "handed"}
                        /\ Len(errorTimestamps') = Cardinality(Young) + 1
                        /\ errorTimestamps'[Len(errorTimestamps')] = now]_vars

\* a capture was dropped by a window of 10 timestamps of two different ages
C15_Witness ==
    /\ lastCapture.outcome = "limited"
    /\ Len(errorTimestamps) = MAX_ERRORS_PER_WINDOW
    /\ errorTimestamps[1] < errorTimestamps[MAX_ERRORS_PER_WINDOW]

\* C16: with the rate limit not reached, a capture whose (message, truncated
\* stack) was handed to sendOrQueue less than 5 minutes before is rejected
\* with no hand-off and without touching the expiry of the stored
\* fingerprint; a capture whose fingerprint was never handed on, or was more
\* than 5 minutes before, makes exactly one hand-off on the errors endpoint.
C16_DedupWindow ==
    [][(CaptureChecked /\ lastCapture'.outcome # "limited")
          => LET hash == lastCapture'.hash
                 earlier == {a \in acceptedAt : a.hash = hash}
             IN  /\ (\E a \in earlier : now - a.at < DEDUP_EXPIRY_MS)
                       => /\ lastCapture'.outcome = "duplicate"
                          /\ UNCHANGED <<handed, sq, dedupTimers, sentErrorHashes>>
                 /\ (\A a \in earlier : now - a.at > DEDUP_EXPIRY_MS)
                       => /\ lastCapture'.outcome = "handed"
                          /\ \E s \in Calls :
                                /\ handed[s].endpoint = "none"
                                /\ handed'[s].endpoint = "errors"
                                /\ handed'[s].ref = hash
                                /\ sq'[s].pc = "send"
                                /\ \A t \in Calls \ {s} : handed'[t] = handed[t]]_vars

\* C17: after install and uninstall calls that end with uninstall the global
\* handler is the one present before the first install, and nothing of the
\* tracker is left installed; while installed, however many times install
\* was called, the global handler is the tracker's and the handler it keeps
\* as displaced is that first one; and every error that reached the
\* tracker's handler was passed on to it after the local capture.
C17_HandlerRestore ==
    /\ handlerLog.last = "uninstall"
          => /\ globalHandler = handlerLog.prior
             /\ ~installed
             /\ ~rejectionTracking
    /\ installed
          => /\ globalHandler = TrackerHandler
             /\ originalHandler = handlerLog.prior
    /\ (lastCapture.via = "global" /\ lastCapture.outcome # "foreign")
          => lastCapture.passedTo = handlerLog.prior

\* install and uninstall were each called more than once, the last call was
\* an uninstall, and an error caught while installed was captured and passed
\* on
C17_Witness ==
    /\ handlerLog.installs >= 2
    /\ handlerLog.uninstalls >= 2
    /\ handlerLog.last = "uninstall"
    /\ globalHandler = handlerLog.prior
    /\ lastCapture.via = "global"
    /\ lastCapture.outcome = "handed"
    /\ lastCapture.passedTo = handlerLog.prior

\* C21: a duration event is emitted for the active view only when at least
\* 1000 ms have passed since its activation, and the duration it carries is a
\* whole number of seconds from 1 to 3600.
C21_DurationThreshold ==
    [][\A s \in Calls :
          (handed[s].endpoint # "duration" /\ handed'[s].endpoint = "duration")
             => /\ now - screenStartTime >= 1000 * MIN_DURATION
                /\ handed'[s].value \in MIN_DURATION..MAX_DURATION]_vars

\* the read-modify-write cycles on the persisted queue that have read it and
\* not yet written it back: enqueueEvent and pruneQueue of a sendOrQueue call,
\* removeEvent and updateEvent of a flush item
\* C25: the debounce has one slot. A trackScreen call for a screen other than
\* the active one leaves exactly its own activation pending, under a fresh
\* view id, due 300 ms later while no screen has been activated and 1000 ms
\* later afterwards; a screen becomes active, and its screen event is handed
\* over, only when the pending activation fires, so of a burst of such calls
\* only the last one is activated and sent.
C25_SingleSlotDebounce ==
    [][/\ (screenDebounceTimer'.set /\ screenDebounceTimer' # screenDebounceTimer)
            => /\ screenDebounceTimer'.due =
                     now + (IF currentScreenName = NoScreen THEN 300 ELSE 1000)
               /\ screenDebounceTimer'.name = lastScreenCall'.name
               /\ screenDebounceTimer'.path = lastScreenCall'.path
               /\ ~lastScreenCall'.deduped
               /\ screenDebounceTimer'.viewId
                     \notin {NoId, currentScreenViewId, screenDebounceTimer.viewId}
       /\ (\/ currentScreenName' # currentScreenName
           \/ currentScreenPath' # currentScreenPath
           \/ currentScreenViewId' \notin {NoId, currentScreenViewId})
            => /\ screenDebounceTimer.set
               /\ now >= screenDebounceTimer.due
               /\ ~screenDebounceTimer'.set
               /\ currentScreenName' = screenDebounceTimer.name
               /\ currentScreenPath' = screenDebounceTimer.path
               /\ currentScreenViewId' = screenDebounceTimer.viewId
               /\ ~lastScreenCall.deduped
                     => /\ currentScreenName' = lastScreenCall.name
                        /\ currentScreenPath' = lastScreenCall.path
       /\ \A s \in Calls :
             (handed[s].endpoint # "screen" /\ handed'[s].endpoint = "screen")
                => /\ screenDebounceTimer.set
                   /\ ~screenDebounceTimer'.set
                   /\ handed'[s].ref = screenDebounceTimer.viewId]_vars

\* a call replaced the pending activation of another screen and was itself
\* activated and sent
C25_Witness ==
    /\ lastScreenCall.replaced
    /\ lastScreenCall.activated = 1
    /\ lastScreenCall.payloads = 1
    /\ currentScreenName = lastScreenCall.name

\* C27: the active screen follows the last call. Once the client is ready and
\* not destroyed, trackScreen has been called and no activation is pending any
\* more, the active name and path are those of the last trackScreen call.
C27_ActiveFollowsLastCall ==
    (/\ initialized
     /\ ~destroyed
     /\ lastScreenCall.calls >= 1
     /\ ~screenDebounceTimer.set)
        => /\ currentScreenName = lastScreenCall.name
           /\ currentScreenPath = lastScreenCall.path

\* C28: an active screen keeps its duration tracking. Whenever the client is
\* ready and not destroyed, the app is in the foreground, a screen is active
\* and no activation is pending, the screen has a view id and a start time.
C28_ActiveScreenTracked ==
    (/\ initialized
     /\ ~destroyed
     /\ appState = "active"
     /\ currentScreenName # NoScreen
     /\ ~screenDebounceTimer.set)
        => /\ currentScreenViewId # NoId
           /\ screenStartTime # 0

\* C26: every flush that gets past the guard completes and clears the
\* flushing flag, whether the queue is empty, every send fails or a storage
\* call of an item fails; it completes only when every item of the batch has
\* run to its end, and an item whose storage call fails leaves the other
\* items' processing as it was.
C26_FlushCompletes ==
    /\ flushing ~> ~flushing
    /\ [](flushing <=> \E f \in Flushers : Running(f))
    /\ [][\A f \in Flushers :
            /\ (Running(f) /\ ~Running(f)')
                  => /\ ~flushing'
                     /\ fl[f].pc = "run"
                           => \A i \in 1..Len(fl[f].tasks) :
                                 fl[f].tasks[i].pc \in {"done", "failed"}
            /\ \A i \in 1..Len(fl[f].tasks) :
                  (fl[f].tasks[i].pc # "failed" /\ Running(f)'
                      /\ fl'[f].tasks[i].pc = "failed")
                     => \A j \in 1..Len(fl[f].tasks) :
                           j # i => fl'[f].tasks[j] = fl[f].tasks[j]]_vars

\* a batch of two has settled with one item's storage call failed and the
\* other item's outcome applied after its send failed
C26_Witness ==
    \E f \in Flushers :
        /\ Settled(f)
        /\ \E i, j \in 1..Len(fl[f].tasks) :
              /\ fl[f].tasks[i].pc = "failed"
              /\ fl[f].tasks[j].pc = "done"
              /\ ~fl[f].tasks[j].ok

\* the flush that runs has delivered the event, or has found its send failed
\* with retryCount at MaxRetries: removeEvent is called for it
\* (transport.ts:75-76, 83)
Retired(id) ==
    \E f \in Flushers : \E i \in 1..Len(fl[f].tasks) :
        /\ fl[f].pc = "run"
        /\ fl[f].batch[i].id = id
        /\ fl[f].tasks[i].pc \in {"rmWrite", "done"}
        /\ fl[f].tasks[i].ok \/ ~RetryAllowed(fl[f].batch[i])

\* C22: with no sendOrQueue call made, every send settling and flush called
\* at startup and on every tick of the interval, the events of the persisted
\* queue are removed from it delivered or discarded after max retries, until
\* it is empty: no event leaves the queue in a step unless the running flush
\* has delivered it or discarded it after max retries.
C22_QueueDrains ==
    [][\A id \in QueueIds(stored) \ QueueIds(stored') : Retired(id)]_vars

OpenCycles ==
    {<<"call", s, 0>> : s \in {c \in Calls : sq[c].pc \in {"enqWrite", "pruneWrite"}}}
    \cup {c \in {<<"flush", f, i>> : f \in Flushers, i \in 1..(MaxQueueSize + MaxCalls)} :
              /\ c[3] <= Len(fl[c[2]].tasks)
              /\ fl[c[2]].tasks[c[3]].pc \in {"rmWrite", "upWrite"}}

\* C23: no two read-modify-write cycles on the persisted queue overlap: no
\* enqueue, remove, update or prune reads the queue between another cycle's
\* read and its write, and no cycle writes back a snapshot older than the
\* queue it replaces.
C23_NoOverlappingRewrites ==
    /\ [](Cardinality(OpenCycles) <= 1)
    /\ [][/\ \A s \in Calls :
                (sq[s].pc \in {"enqWrite", "pruneWrite"} /\ sq'[s].pc # sq[s].pc)
                    => sq[s].snap = stored
           /\ \A f \in Flushers : \A i \in 1..Len(fl[f].tasks) :
                (/\ fl[f].tasks[i].pc \in {"rmWrite", "upWrite"}
                 /\ fl'[f].pc = "run"
                 /\ fl'[f].tasks[i].pc = "done")
                    => fl[f].tasks[i].snap = stored]_vars

\* the order of enqueueing: the events of an earlier lifetime in the order of
\* the queue at start, then the events of the sendOrQueue calls, which are
\* made one after the other, in the order of the calls
EnqueuedBefore(a, b) ==
    IF a > MaxCalls THEN b <= MaxCalls \/ a < b
    ELSE b <= MaxCalls /\ a < b

\* C24: any two events in the persisted queue appear in the order in which
\* they were enqueued, and no write to the queue changes the relative order
\* of two events it keeps.
C24_OrderPreserved ==
    /\ [](\A i, j \in 1..Len(stored) :
             i < j => EnqueuedBefore(stored[i].id, stored[j].id))
    /\ [][\A a, b \in QueueIds(stored) \cap QueueIds(stored') :
             FindIndex(stored, a) < FindIndex(stored, b)
                => FindIndex(stored', a) < FindIndex(stored', b)]_vars

\* the queue holds an event whose retryCount was raised in place at the
\* front and an event of this lifetime at the back, after a removal
C24_Witness ==
    /\ Len(stored) >= 2
    /\ stored[1].retryCount >= 1
    /\ stored[1].id > MaxCalls
    /\ stored[Len(stored)].id <= MaxCalls
    /\ removedIds # {}

====
